---- MODULE Spec2Model ----
(***************************************************************************)
(* Connection/session and room-broadcast engine of the chat server:        *)
(* ConnectionManager (src/src/server/connectionManager.ts), the transport  *)
(* hooks of src/src/server/index.ts and the use cases it awaits.           *)
(*                                                                         *)
(* A handler is an async function: it runs synchronously up to its next    *)
(* await and is resumed later.  Every await of a use case or of a storage  *)
(* call is a suspension point; the awaited call takes effect when the      *)
(* handler is resumed.  A handler in flight is a record of `tasks`.        *)
(***************************************************************************)
EXTENDS Integers, Sequences, FiniteSets, TLC

\* ------------------------------------------------------------------ bounds
MaxFrames == 3
MaxInflight == 2
MaxTicks == 3
MaxFailures == 1
MaxTypingFrames == 3
MaxRateFrames == 32
MaxRateTicks == 3
MaxSessionFrames == 3
MaxStatusFrames == 3
MaxOrderFrames == 3
MaxIdentityFrames == 3
MaxSharedFrames == 3
MaxThreadFrames == 3
MaxEmitterCalls == 5
MaxHandlers == 3
MaxContentFrames == 1
MaxHistoryFrames == 1
MaxStored == 4
MaxCreatedAt == 3
MaxLimit == 2
MaxPadding == 3
BodyLengths == {0, 1, 2, 1998, 1999, 2000, 2001}

\* ------------------------------------------------------- program constants
TYPING_TIMEOUT_MS == 3000
MAX_MESSAGE_LENGTH == 2000
RATE_LIMIT_MESSAGES_PER_MINUTE == 30
RATE_WINDOW_MS == 60000

\* Date.now() when the server starts: any epoch time is past the first window.
StartTime == 2 * RATE_WINDOW_MS
\* Clock steps: a third of the typing delay; half of the rate window.
TickMs == TYPING_TIMEOUT_MS \div 3
RateTickMs == RATE_WINDOW_MS \div 2

\* The sockets the transport accepts, in the order broadcasts list them.
Conns == {1, 2}
LastConn == CHOOSE c \in Conns : \A d \in Conns : d <= c
NoConn == 0
Rooms == {"general", "random"}
NoSuchRoom == "nowhere"
RoomIds == Rooms \cup {NoSuchRoom}
NoRoom == "null"
Usernames == {"alice", "bob"}
\* The names a connection joins under: the first connection is alice, the
\* second joins under the same name or as bob.
UsernamesOf(c) == IF c = 1 THEN {"alice"} ELSE Usernames
NoUser == "null"
NoTimer == 0

VARIABLES
  connections,        \* keys of ConnectionManager.connections
  wsState,            \* transport: "none" (not accepted yet), "open", "closed"
  state,              \* ws.data.state of each connection
  userConnections,    \* ConnectionManager.userConnections
  roomSubscriptions,  \* ConnectionManager.roomSubscriptions (no entry = {})
  users,              \* persisted users, keyed by user id
  participants,       \* persisted participants of each room
  messages,           \* persisted messages, in persistence order
  tasks,              \* handlers suspended at an await
  timers,             \* pending setTimeout callbacks
  now,                \* Date.now()
  frames,             \* frames received so far
  frameLimit,         \* frames the run receives at most
  switch,             \* per connection: the room of its last LEAVE_ROOM frame and
                      \* of the JOIN_ROOM frame that followed it directly
  failures,           \* storage calls that have failed so far
  rateWindow,         \* per connection: the start of its 60-second window fixed
                      \* at the window's first attempt, and the attempts in it
  sent,               \* frames pushed to sockets by the last step, in order
  emitted,            \* domain events published by the last step, in order
  events,             \* the TypedEventEmitter: its handlers, and what they have seen
  lastOp              \* the last step taken

vars == <<connections, wsState, state, userConnections, roomSubscriptions,
          users, participants, messages, tasks, timers, now, frames,
          frameLimit, switch, failures, rateWindow, sent, emitted, events, lastOp>>

registry == <<connections, userConnections, roomSubscriptions>>
storage == <<users, participants, messages>>

\* ------------------------------------------------------------- data types
EmptyState ==
  [userId |-> NoUser, roomId |-> NoRoom, username |-> NoUser,
   typingTimeout |-> NoTimer, lastMessageTime |-> 0, messageCount |-> 0]

\* The persisted users of one username, compared without case: whether
\* findByUsername finds one, its status and last-seen stamp, and how many rows
\* carry the name.
NoPersistedUser ==
  [exists |-> FALSE, status |-> "offline", lastSeenAt |-> 0, rows |-> 0]

\* UserFactory.create: a new user is online.
NewUser == [exists |-> TRUE, status |-> "online", lastSeenAt |-> 0, rows |-> 1]

NoMessage == 0
NoStatus == "null"

ServerEvent(type, room, user, code) ==
  [type |-> type, room |-> room, user |-> user, code |-> code,
   messageId |-> NoMessage, status |-> NoStatus]

\* An event whose payload names a message.
MessageEvent(type, room, user, messageId) ==
  [ServerEvent(type, room, user, "") EXCEPT !.messageId = messageId]

\* A step as lastOp records it.  aux: whether a typing timer of the connection
\* was pending when the step began; for a timer callback, the room the
\* connection was in when the timer was armed.
Op(op, conn, room, outcome) ==
  [op |-> op, conn |-> conn, room |-> room, outcome |-> outcome,
   aux |-> IF \E t \in timers : t.conn = conn THEN "armed" ELSE "idle"]

Task(conn, seq, kind, pc, room, user) ==
  [conn |-> conn, seq |-> seq, kind |-> kind, pc |-> pc, room |-> room,
   user |-> user, messageId |-> NoMessage, status |-> NoStatus,
   replyTo |-> NoMessage, history |-> <<>>]

\* A handler suspended in a use case that names a message.
MessageTask(conn, seq, kind, pc, user, messageId) ==
  [Task(conn, seq, kind, pc, NoRoom, user) EXCEPT !.messageId = messageId]

\* USER_STATUS_CHANGED {userId, status}.
StatusEvent(user, status) ==
  [ServerEvent("USER_STATUS_CHANGED", NoRoom, user, "") EXCEPT !.status = status]

\* A handler or listener that carries the status of an UPDATE_STATUS frame.
StatusTask(conn, seq, kind, pc, user, status) ==
  [Task(conn, seq, kind, pc, NoRoom, user) EXCEPT !.status = status]

\* A persisted message; its id is its position in messages.
Message(roomId, authorId) ==
  [roomId |-> roomId, authorId |-> authorId, content |-> "original",
   deleted |-> FALSE, replyTo |-> NoMessage]

\* ------------------------------------------------------- broadcast router
\* send: ws.send on a socket that is not open delivers nothing; the error is
\* caught and logged.
Send(ws, to, event) ==
  IF ws[to] = "open" THEN <<[to |-> to, event |-> event]>> ELSE <<>>

\* Whether send throws to its caller.
\* Faulty variant of sendThrows: the error of ws.send is not caught.
sendThrowsUncaught(ws, to) == ws[to] # "open"

\* send wraps ws.send in try/catch: nothing reaches the caller.
sendThrows(ws, to) == FALSE

\* Faulty variant of Recipients: the excluded connection is pushed to as well.
RecipientsIncludingSender(subs, conns, roomId, excludeConnectionId) ==
  {c \in subs[roomId] : c \in conns}

\* The subscribers broadcastToRoom pushes to.
Recipients(subs, conns, roomId, excludeConnectionId) ==
  {c \in subs[roomId] : c # excludeConnectionId /\ c \in conns}

\* The loop of broadcastToRoom over the subscribers; a throwing send would
\* end it.
RECURSIVE SendEach(_, _, _, _)
SendEach(i, targets, ws, event) ==
  IF i > LastConn THEN <<>>
  ELSE IF i \in targets /\ sendThrows(ws, i) THEN <<>>
  ELSE (IF i \in targets THEN Send(ws, i, event) ELSE <<>>)
       \o SendEach(i + 1, targets, ws, event)

broadcastToRoom(subs, conns, ws, roomId, event, excludeConnectionId) ==
  SendEach(1, Recipients(subs, conns, roomId, excludeConnectionId), ws, event)

\* ----------------------------------------------------- room subscriptions
joinRoom(subs, connectionId, roomId) ==
  [subs EXCEPT ![roomId] = @ \cup {connectionId}]

\* Faulty variant of leaveRoom: the subscriber is not deleted.
leaveRoomKeepsSubscriber(subs, connectionId, roomId) == subs

leaveRoom(subs, connectionId, roomId) ==
  [subs EXCEPT ![roomId] = @ \ {connectionId}]

\* ------------------------------------------------------------ rate limit
\* Faulty variant of checkRateLimitState: the count stops one past the ceiling.
checkRateLimitStateCapped(st, t) ==
  LET oneMinuteAgo == t - RATE_WINDOW_MS
      r == IF st.lastMessageTime < oneMinuteAgo
           THEN [st EXCEPT !.messageCount = 0, !.lastMessageTime = t]
           ELSE st
  IN [r EXCEPT !.messageCount = IF @ > RATE_LIMIT_MESSAGES_PER_MINUTE THEN @ ELSE @ + 1,
               !.lastMessageTime = t]

\* checkRateLimit: the session state after the call, and its result.
checkRateLimitState(st, t) ==
  LET oneMinuteAgo == t - RATE_WINDOW_MS
      r == IF st.lastMessageTime < oneMinuteAgo
           THEN [st EXCEPT !.messageCount = 0, !.lastMessageTime = t]
           ELSE st
  IN [r EXCEPT !.messageCount = @ + 1, !.lastMessageTime = t]

\* Faulty variant of checkRateLimit: the ceiling itself is refused.
checkRateLimitBelowCeiling(st, t) ==
  checkRateLimitState(st, t).messageCount < RATE_LIMIT_MESSAGES_PER_MINUTE

checkRateLimit(st, t) ==
  checkRateLimitState(st, t).messageCount <= RATE_LIMIT_MESSAGES_PER_MINUTE

\* The 60-second window of a connection counted from its first attempt: an
\* attempt 60 seconds or more after the start opens the next window.  A window
\* is fresh when it opens with the connection's first attempt or more than 60
\* seconds after its previous attempt.
NoWindow == [start |-> 0, attempts |-> 0, last |-> 0, fresh |-> TRUE]

Attempt(w, t) ==
  IF w.attempts = 0 \/ t - w.start >= RATE_WINDOW_MS
  THEN [start |-> t, attempts |-> 1, last |-> t,
        fresh |-> (w.attempts = 0 \/ t - w.last > RATE_WINDOW_MS)]
  ELSE [w EXCEPT !.attempts = @ + 1, !.last = t]


\* ------------------------------------------------------- TypedEventEmitter
\* The emitter as the handlers it holds per event (handlers), and for every
\* handler ever registered: its event and whether once() registered it
\* (registered), how often it has been invoked (calls), how many emits of its
\* event have begun since it was registered (emits), whether it is a wrapper
\* made by once() (wrapped), and whether it was taken
\* out by its unsubscribe function, off(event) or removeAllListeners while it
\* was still held (removed).
EventNames == {"user:connected", "user:disconnected"}
HandlerIds == 1..MaxHandlers
NoHandler == [event |-> "null", once |-> FALSE]

NewEmitter ==
  [handlers |-> [e \in EventNames |-> {}],
   registered |-> [h \in HandlerIds |-> NoHandler],
   calls |-> [h \in HandlerIds |-> 0],
   emits |-> [h \in HandlerIds |-> 0],
   wrapped |-> {},
   removed |-> {}]

\* ------------------------------------------------------------------ init
NoSwitch == [left |-> NoRoom, joined |-> NoRoom]

\* The state after construction: no socket accepted, nothing persisted but
\* the default rooms.
Constructed ==
  /\ connections = {}
  /\ wsState = [c \in Conns |-> "none"]
  /\ state = [c \in Conns |-> EmptyState]
  /\ userConnections = [u \in Usernames |-> NoConn]
  /\ roomSubscriptions = [r \in RoomIds |-> {}]
  /\ users = [u \in Usernames |-> NoPersistedUser]
  /\ participants = [r \in Rooms |-> {}]
  /\ messages = <<>>
  /\ tasks = {}
  /\ timers = {}
  /\ now = StartTime
  /\ frames = 0
  /\ switch = [c \in Conns |-> NoSwitch]
  /\ failures = 0
  /\ rateWindow = [c \in Conns |-> NoWindow]
  /\ sent = <<>>
  /\ emitted = <<>>
  /\ lastOp = [op |-> "init", conn |-> NoConn, room |-> NoRoom, outcome |-> "done",
               aux |-> "idle"]

Init == Constructed /\ frameLimit = MaxFrames /\ events = NewEmitter

\* ------------------------------------------------------------ transport
\* A sequence number for a handler of c that no handler in flight of c has.
FreshSeq(c) ==
  CHOOSE n \in 1..(Cardinality(tasks) + 1) :
    \A t \in tasks : ~(t.conn = c /\ t.seq = n)

HandlerTasks == {t \in tasks : t.kind # "remove"}

\* A frame of c has been received that is neither a JOIN_ROOM nor a LEAVE_ROOM
\* that handleLeaveRoom acts on.
Received(c) ==
  /\ frames' = frames + 1
  /\ switch' = [switch EXCEPT ![c] = NoSwitch]

ReceivedLeave(c, roomId) ==
  /\ frames' = frames + 1
  /\ switch' = [switch EXCEPT ![c] = [left |-> roomId, joined |-> NoRoom]]

ReceivedJoin(c, roomId) ==
  /\ frames' = frames + 1
  /\ switch' = [switch EXCEPT ![c] =
       IF @.left # NoRoom /\ @.joined = NoRoom
       THEN [@ EXCEPT !.joined = roomId]
       ELSE NoSwitch]

\* websocket.message: the transport hands over a frame of an open socket.  The
\* handler is not awaited, so a frame is accepted while earlier ones are in flight.
CanReceive(c) ==
  /\ wsState[c] = "open"
  /\ frames < frameLimit

CanSuspend == Cardinality(HandlerTasks) < MaxInflight

\* connections.get(id) of removeConnection and handleMessage.
\* Faulty variant of HasConnection: the guard of removeConnection always passes.
HasConnectionAlways(id) == TRUE

HasConnection(id) == id \in connections

\* websocket.open -> addConnection: a fresh id, a fresh session state.
Open(c) ==
  /\ wsState[c] = "none"
  /\ wsState' = [wsState EXCEPT ![c] = "open"]
  /\ connections' = connections \cup {c}
  /\ sent' = <<>>
  /\ emitted' = <<>>
  /\ lastOp' = Op("open", c, NoRoom, "done")
  /\ UNCHANGED <<state, userConnections, roomSubscriptions, storage, tasks,
                 timers, now, frames, switch, frameLimit, events, rateWindow, failures>>

\* ------------------------------------------------------------------ timers
clearTimeout(ts, c, handle) == {t \in ts : ~(t.conn = c /\ t.id = handle)}

\* The handle setTimeout returns: one no pending timer of c has and the session
\* does not hold (handles are opaque; only their equality is observed).
FreshHandle(c) ==
  CHOOSE n \in 1..(Cardinality(timers) + 2) :
    /\ n # state[c].typingTimeout
    /\ \A t \in timers : ~(t.conn = c /\ t.id = n)

PendingTimers(c) == {t \in timers : t.conn = c}

\* -------------------------------------------------------- removeConnection
\* The synchronous part of removeConnection(id), up to its first await (or to
\* its end when the session has no user).  `ws` is the transport state the
\* pushes of this step see.
removeConnection(id, op, ws) ==
  IF HasConnection(id)
  THEN LET st == state[id]
           subs == IF st.roomId # NoRoom
                   THEN leaveRoom(roomSubscriptions, id, st.roomId)
                   ELSE roomSubscriptions
       IN /\ timers' = IF st.typingTimeout # NoTimer
                       THEN clearTimeout(timers, id, st.typingTimeout)
                       ELSE timers
          /\ roomSubscriptions' = subs
          /\ sent' = IF st.roomId # NoRoom
                     THEN broadcastToRoom(subs, connections, ws, st.roomId,
                            ServerEvent("USER_LEFT", st.roomId, st.userId, ""), id)
                     ELSE <<>>
          /\ IF st.userId # NoUser
             THEN /\ tasks' = tasks \cup
                        {Task(id, 0, "remove", "updateStatus", NoRoom, st.userId)}
                  /\ connections' = connections
                  /\ lastOp' = Op(op, id, st.roomId, "await")
             ELSE /\ tasks' = tasks
                  /\ connections' = connections \ {id}
                  /\ lastOp' = Op(op, id, st.roomId, "done")
  ELSE /\ connections' = connections \ {id}
       /\ sent' = <<>>
       /\ lastOp' = Op(op, id, NoRoom, "done")
       /\ UNCHANGED <<roomSubscriptions, tasks, timers>>

\* websocket.close -> removeConnection(connectionId), not awaited.
Close(c) ==
  /\ wsState[c] = "open"
  /\ wsState' = [wsState EXCEPT ![c] = "closed"]
  /\ removeConnection(c, "close", wsState')
  /\ emitted' = <<>>
  /\ UNCHANGED <<state, userConnections, storage, now, frames, switch, frameLimit, events, rateWindow, failures>>

\* A second removeConnection(id) for an id whose removal has completed.
RemoveAgain(c) ==
  /\ wsState[c] = "closed"
  /\ c \notin connections
  /\ \A t \in tasks : ~(t.conn = c /\ t.kind = "remove")
  /\ removeConnection(c, "removeAgain", wsState)
  /\ emitted' = <<>>
  /\ UNCHANGED <<wsState, state, userConnections, storage, now, frames, switch, frameLimit, events, rateWindow, failures>>

\* users.updateStatus: no row, no change.
updateStatus(us, userId, status) ==
  IF userId \in DOMAIN us /\ us[userId].exists
  THEN [us EXCEPT ![userId].status = status]
  ELSE us

\* users.updateLastSeen
updateLastSeen(us, userId, t) ==
  IF userId \in DOMAIN us /\ us[userId].exists
  THEN [us EXCEPT ![userId].lastSeenAt = t]
  ELSE us

\* A storage call of removeConnection rejects: the await throws, nothing in
\* removeConnection catches it, and the rest of the function is skipped.
RemoveFails(t) ==
  /\ t \in tasks /\ t.kind = "remove"
  /\ failures < MaxFailures
  /\ failures' = failures + 1
  /\ tasks' = tasks \ {t}
  /\ sent' = <<>>
  /\ emitted' = <<>>
  /\ lastOp' = Op("remove:" \o t.pc, t.conn, NoRoom, "throw")
  /\ UNCHANGED <<connections, wsState, state, userConnections,
                 roomSubscriptions, storage, timers, now, frames, switch,
                 frameLimit, events, rateWindow>>

\* await users.updateStatus(userId, "offline") returns; updateLastSeen is called.
RemoveStatusDone(t) ==
  /\ t \in tasks /\ t.kind = "remove" /\ t.pc = "updateStatus"
  /\ users' = updateStatus(users, t.user, "offline")
  /\ tasks' = (tasks \ {t}) \cup
       {Task(t.conn, 0, "remove", "updateLastSeen", NoRoom, state[t.conn].userId)}
  /\ sent' = <<>>
  /\ emitted' = <<>>
  /\ lastOp' = Op("remove:updateStatus", t.conn, NoRoom, "await")
  /\ UNCHANGED <<connections, wsState, state, userConnections,
                 roomSubscriptions, participants, messages, timers, now,
                 frames, switch, frameLimit, events, rateWindow, failures>>

\* await users.updateLastSeen(userId) returns; the event is emitted and the
\* connection is deleted from the map.
RemoveLastSeenDone(t) ==
  /\ t \in tasks /\ t.kind = "remove" /\ t.pc = "updateLastSeen"
  /\ users' = updateLastSeen(users, t.user, now)
  /\ tasks' = tasks \ {t}
  /\ emitted' = <<[event |-> "user:disconnected", user |-> state[t.conn].userId]>>
  /\ connections' = connections \ {t.conn}
  /\ sent' = <<>>
  /\ lastOp' = Op("remove:updateLastSeen", t.conn, NoRoom, "done")
  /\ UNCHANGED <<wsState, state, userConnections, roomSubscriptions,
                 participants, messages, timers, now, frames, switch, frameLimit, events, rateWindow, failures>>

\* --------------------------------------------------------------- JOIN_ROOM
\* handleMessage -> routeEvent -> handleJoinRoom, up to `await useCases.joinRoom`.
RecvJoinRoom(c, roomId, username) ==
  /\ CanReceive(c) /\ CanSuspend /\ HasConnection(c)
  /\ ReceivedJoin(c, roomId)
  /\ tasks' = tasks \cup
       {Task(c, FreshSeq(c), "JOIN_ROOM", "joinRoom", roomId, username)}
  /\ sent' = <<>>
  /\ emitted' = <<>>
  /\ lastOp' = Op("JOIN_ROOM", c, roomId, "await")
  /\ UNCHANGED <<registry, wsState, state, storage, timers, now, frameLimit, events, rateWindow, failures>>

\* useCases.getOrCreateUser: an existing user is set online, a new one is saved
\* with status "online".  The user id stands for the user found by username.
getOrCreateUser(us, username) ==
  [us EXCEPT ![username] =
     IF @.exists THEN [@ EXCEPT !.status = "online"]
     ELSE NewUser]

\* The persisted users after useCases.joinRoom: the room is looked up first,
\* and the user is created only when it is found.
\* Faulty variant of joinRoomUsers: the user is created before the room is looked up.
joinRoomUsersBeforeRoomCheck(us, roomId, username) == getOrCreateUser(us, username)

joinRoomUsers(us, roomId, username) ==
  IF roomId \in Rooms THEN getOrCreateUser(us, username) ELSE us

\* useCases.joinRoom returns ROOM_NOT_FOUND: the error is unicast.
JoinRoomFails(t) ==
  /\ t \in tasks /\ t.kind = "JOIN_ROOM" /\ t.pc = "joinRoom"
  /\ t.room \notin Rooms
  /\ users' = joinRoomUsers(users, t.room, t.user)
  /\ tasks' = tasks \ {t}
  /\ sent' = Send(wsState, t.conn, ServerEvent("ERROR", t.room, NoUser, "ROOM_NOT_FOUND"))
  /\ emitted' = <<>>
  /\ lastOp' = Op("JOIN_ROOM:joinRoom", t.conn, t.room, "error")
  /\ UNCHANGED <<registry, wsState, state, participants, messages, timers, now, frames, switch, frameLimit, events, rateWindow, failures>>

\* The session after a successful join.
\* Faulty variant of handleJoinRoomState: the username is not stored.
handleJoinRoomStateNoUsername(st, userId, roomId, username) ==
  [st EXCEPT !.userId = userId, !.roomId = roomId]

handleJoinRoomState(st, userId, roomId, username) ==
  [st EXCEPT !.userId = userId, !.roomId = roomId, !.username = username]

\* useCases.joinRoom returns success with the persisted users `us`: the
\* participant is added, the session and the indexes are updated and
\* handleJoinRoom suspends at `await useCases.getRooms`.
JoinRoomSucceeds(t, us) ==
  /\ users' = us
  /\ participants' = [participants EXCEPT ![t.room] = @ \cup {t.user}]
  /\ emitted' = <<[event |-> "room:user-joined", user |-> t.user],
                  [event |-> "user:connected", user |-> t.user]>>
  /\ state' = [state EXCEPT ![t.conn] = handleJoinRoomState(@, t.user, t.room, t.user)]
  /\ userConnections' = [userConnections EXCEPT ![t.user] = t.conn]
  /\ roomSubscriptions' = joinRoom(roomSubscriptions, t.conn, t.room)
  /\ tasks' = (tasks \ {t}) \cup {[t EXCEPT !.pc = "getRooms"]}
  /\ sent' = <<>>
  /\ lastOp' = Op("JOIN_ROOM:joinRoom", t.conn, t.room, "await")
  /\ UNCHANGED <<connections, wsState, messages, timers, now, frames, switch, frameLimit, events, rateWindow, failures>>

\* useCases.joinRoom with its awaits settling back to back.
JoinRoomDone(t) ==
  /\ t \in tasks /\ t.kind = "JOIN_ROOM" /\ t.pc = "joinRoom"
  /\ t.room \in Rooms
  /\ JoinRoomSucceeds(t, joinRoomUsers(users, t.room, t.user))

\* ------------------------------------------ JOIN_ROOM, await by await
\* The actions below resume joinRoom one storage await at a time: the room
\* and then the user are looked up; an existing user is set online, a new
\* one is saved; then the participant is added and joinRoom returns.

\* String.prototype.toLowerCase / COLLATE NOCASE on the usernames of the frames.
toLowerCase(username) == IF username = "Alice" THEN "alice" ELSE username

\* rooms.findById finds the room and findByUsername has answered: getOrCreateUser
\* goes on to updateStatus for a user that was found, to save for none.
JoinRoomFindUser(t) ==
  /\ t \in tasks /\ t.kind = "JOIN_ROOM" /\ t.pc = "joinRoom"
  /\ t.room \in Rooms
  /\ tasks' = (tasks \ {t}) \cup
       {[t EXCEPT !.pc = IF users[t.user].exists THEN "updateStatus" ELSE "save"]}
  /\ sent' = <<>>
  /\ emitted' = <<>>
  /\ lastOp' = Op("JOIN_ROOM:findByUsername", t.conn, t.room, "await")
  /\ UNCHANGED <<registry, wsState, state, storage, timers, now, frames, switch, frameLimit, events, rateWindow, failures>>

\* users.save of a new user: one more row with the username.
save(us, username) ==
  [us EXCEPT ![username] = [NewUser EXCEPT !.rows = us[username].rows + 1]]

\* getOrCreateUser completes: users.updateStatus(id, "online") for the user
\* found, users.save(newUser) for none (the in-memory repository keys the
\* rows by id and accepts a second row with the name).
JoinRoomUserDone(t) ==
  /\ t \in tasks /\ t.kind = "JOIN_ROOM" /\ t.pc \in {"updateStatus", "save"}
  /\ users' = IF t.pc = "updateStatus" THEN updateStatus(users, t.user, "online")
              ELSE save(users, t.user)
  /\ tasks' = (tasks \ {t}) \cup {[t EXCEPT !.pc = "addParticipant"]}
  /\ sent' = <<>>
  /\ emitted' = <<>>
  /\ lastOp' = Op("JOIN_ROOM:getOrCreateUser", t.conn, t.room, "await")
  /\ UNCHANGED <<registry, wsState, state, participants, messages, timers, now, frames, switch, frameLimit, events, rateWindow, failures>>

\* users.save of the SQLite repository for a username that has a row by now:
\* the UNIQUE constraint fails, joinRoom and handleJoinRoom reject, nothing
\* is sent.
JoinRoomSaveThrows(t) ==
  /\ t \in tasks /\ t.kind = "JOIN_ROOM" /\ t.pc = "save"
  /\ users[t.user].rows > 0
  /\ tasks' = tasks \ {t}
  /\ sent' = <<>>
  /\ emitted' = <<>>
  /\ lastOp' = Op("JOIN_ROOM:getOrCreateUser", t.conn, t.room, "throw")
  /\ UNCHANGED <<registry, wsState, state, storage, timers, now, frames, switch, frameLimit, events, rateWindow, failures>>

\* rooms.addParticipant and the reads that follow return; joinRoom succeeds.
JoinRoomJoined(t) ==
  /\ t \in tasks /\ t.kind = "JOIN_ROOM" /\ t.pc = "addParticipant"
  /\ JoinRoomSucceeds(t, users)

\* The frames handleJoinRoom sends once getRooms has returned: CONNECTED and
\* ROOM_HISTORY to the joiner, USER_JOINED to the room, the joiner excluded.
\* Faulty variant of handleJoinRoomSent: ROOM_HISTORY goes out before CONNECTED.
handleJoinRoomSentHistoryFirst(subs, conns, ws, c, roomId, userId) ==
  Send(ws, c, ServerEvent("ROOM_HISTORY", roomId, NoUser, ""))
  \o Send(ws, c, ServerEvent("CONNECTED", NoRoom, userId, ""))
  \o broadcastToRoom(subs, conns, ws, roomId,
        ServerEvent("USER_JOINED", roomId, userId, ""), c)

handleJoinRoomSent(subs, conns, ws, c, roomId, userId) ==
  Send(ws, c, ServerEvent("CONNECTED", NoRoom, userId, ""))
  \o Send(ws, c, ServerEvent("ROOM_HISTORY", roomId, NoUser, ""))
  \o broadcastToRoom(subs, conns, ws, roomId,
        ServerEvent("USER_JOINED", roomId, userId, ""), c)

\* getRooms returns and handleJoinRoom completes.
JoinRoomReplies(t) ==
  /\ t \in tasks /\ t.kind = "JOIN_ROOM" /\ t.pc = "getRooms"
  /\ tasks' = tasks \ {t}
  /\ sent' = handleJoinRoomSent(roomSubscriptions, connections, wsState,
                                t.conn, t.room, t.user)
  /\ emitted' = <<>>
  /\ lastOp' = Op("JOIN_ROOM:getRooms", t.conn, t.room, "done")
  /\ UNCHANGED <<registry, wsState, state, storage, timers, now, frames, switch, frameLimit, events, rateWindow, failures>>

\* -------------------------------------------------------------- LEAVE_ROOM
\* handleLeaveRoom without a user or a room: ignored.
RecvLeaveRoomIgnored(c, roomId) ==
  /\ CanReceive(c) /\ HasConnection(c)
  /\ state[c].userId = NoUser \/ state[c].roomId = NoRoom
  /\ Received(c)
  /\ sent' = <<>>
  /\ emitted' = <<>>
  /\ lastOp' = Op("LEAVE_ROOM", c, roomId, "ignored")
  /\ UNCHANGED <<registry, wsState, state, storage, tasks, timers, now, frameLimit, events, rateWindow, failures>>

\* handleLeaveRoom, up to `await useCases.leaveRoom`.
RecvLeaveRoom(c, roomId) ==
  /\ CanReceive(c) /\ CanSuspend /\ HasConnection(c)
  /\ state[c].userId # NoUser /\ state[c].roomId # NoRoom
  /\ ReceivedLeave(c, roomId)
  /\ tasks' = tasks \cup
       {Task(c, FreshSeq(c), "LEAVE_ROOM", "leaveRoom", roomId, state[c].userId)}
  /\ sent' = <<>>
  /\ emitted' = <<>>
  /\ lastOp' = Op("LEAVE_ROOM", c, roomId, "await")
  /\ UNCHANGED <<registry, wsState, state, storage, timers, now, frameLimit, events, rateWindow, failures>>

\* useCases.leaveRoom returns (its result is not looked at); the connection
\* is taken out of the payload's room and USER_LEFT is broadcast to that room.
LeaveRoomDone(t) ==
  /\ t \in tasks /\ t.kind = "LEAVE_ROOM" /\ t.pc = "leaveRoom"
  /\ IF t.room \in Rooms
     THEN /\ participants' = [participants EXCEPT ![t.room] = @ \ {t.user}]
          /\ users' = updateLastSeen(updateStatus(users, t.user, "offline"), t.user, now)
          /\ emitted' = <<[event |-> "room:user-left", user |-> t.user]>>
     ELSE /\ emitted' = <<>>
          /\ UNCHANGED <<participants, users>>
  /\ roomSubscriptions' = leaveRoom(roomSubscriptions, t.conn, t.room)
  /\ tasks' = tasks \ {t}
  /\ sent' = broadcastToRoom(roomSubscriptions', connections, wsState, t.room,
               ServerEvent("USER_LEFT", t.room, state[t.conn].userId, ""), NoConn)
  /\ lastOp' = Op("LEAVE_ROOM:leaveRoom", t.conn, t.room, "done")
  /\ UNCHANGED <<connections, userConnections, wsState, state, messages,
                 timers, now, frames, switch, frameLimit, events, rateWindow, failures>>

\* ------------------------------------------------------------ typing stop
\* handleTypingStop(connectionId, state, {roomId}): timers, session and pushes.
\* Faulty variant of handleTypingStopTimers: the armed timer is left pending.
handleTypingStopTimersKeepsTimer(ts, st, c) == ts

handleTypingStopTimers(ts, st, c) ==
  IF st.userId # NoUser /\ st.typingTimeout # NoTimer
  THEN clearTimeout(ts, c, st.typingTimeout)
  ELSE ts

handleTypingStopState(st) ==
  IF st.userId # NoUser THEN [st EXCEPT !.typingTimeout = NoTimer] ELSE st

handleTypingStopSent(subs, st, c, roomId) ==
  IF st.userId # NoUser
  THEN broadcastToRoom(subs, connections, wsState, roomId,
         ServerEvent("USER_STOPPED_TYPING", roomId, st.userId, ""), c)
  ELSE <<>>

\* ------------------------------------------------------------ SEND_MESSAGE
\* Faulty variant of validateUserAuthorized: every session passes.
validateUserAuthorizedAlways(st) == TRUE

\* validateUserAuthorized
validateUserAuthorized(st) == st.userId # NoUser /\ st.username # NoUser

RecvSendUnauthorized(c, roomId) ==
  /\ CanReceive(c) /\ HasConnection(c)
  /\ ~validateUserAuthorized(state[c])
  /\ Received(c)
  /\ sent' = Send(wsState, c, ServerEvent("ERROR", NoRoom, NoUser, "UNAUTHORIZED"))
  /\ emitted' = <<>>
  /\ lastOp' = Op("SEND_MESSAGE", c, roomId, "unauthorized")
  /\ UNCHANGED <<registry, wsState, state, storage, tasks, timers, now, frameLimit, events, rateWindow, failures>>

\* validateRateLimit fails: RATE_LIMITED is unicast, the use case is not called.
RecvSendRateLimited(c, roomId) ==
  /\ CanReceive(c) /\ HasConnection(c)
  /\ validateUserAuthorized(state[c])
  /\ ~checkRateLimit(state[c], now)
  /\ state' = [state EXCEPT ![c] = checkRateLimitState(@, now)]
  /\ Received(c)
  /\ sent' = Send(wsState, c, ServerEvent("ERROR", NoRoom, NoUser, "RATE_LIMITED"))
  /\ emitted' = <<>>
  /\ rateWindow' = [rateWindow EXCEPT ![c] = Attempt(@, now)]
  /\ lastOp' = Op("SEND_MESSAGE", c, roomId, "rate_limited")
  /\ UNCHANGED <<registry, wsState, storage, tasks, timers, now, frameLimit, events, failures>>

\* handleSendMessage, up to `await useCases.sendMessage`.
RecvSendMessage(c, roomId) ==
  /\ CanReceive(c) /\ CanSuspend /\ HasConnection(c)
  /\ validateUserAuthorized(state[c])
  /\ checkRateLimit(state[c], now)
  /\ state' = [state EXCEPT ![c] = checkRateLimitState(@, now)]
  /\ Received(c)
  /\ tasks' = tasks \cup
       {Task(c, FreshSeq(c), "SEND_MESSAGE", "sendMessage", roomId, state[c].userId)}
  /\ sent' = <<>>
  /\ emitted' = <<>>
  /\ rateWindow' = [rateWindow EXCEPT ![c] = Attempt(@, now)]
  /\ lastOp' = Op("SEND_MESSAGE", c, roomId, "await")
  /\ UNCHANGED <<registry, wsState, storage, timers, now, frameLimit, events, failures>>

\* useCases.sendMessage fails: the room or the author is not found.
sendMessageError(us, roomId, authorId) ==
  IF roomId \notin Rooms THEN "ROOM_NOT_FOUND"
  ELSE IF ~us[authorId].exists THEN "USER_NOT_FOUND"
  ELSE ""

SendMessageFails(t) ==
  /\ t \in tasks /\ t.kind = "SEND_MESSAGE" /\ t.pc = "sendMessage"
  /\ sendMessageError(users, t.room, t.user) # ""
  /\ tasks' = tasks \ {t}
  /\ sent' = Send(wsState, t.conn,
               ServerEvent("ERROR", NoRoom, NoUser, sendMessageError(users, t.room, t.user)))
  /\ emitted' = <<>>
  /\ lastOp' = Op("SEND_MESSAGE:sendMessage", t.conn, t.room, "error")
  /\ UNCHANGED <<registry, wsState, state, storage, timers, now, frames, switch, frameLimit, events, rateWindow, failures>>

\* useCases.sendMessage persists the message; the sender's typing is stopped
\* and MESSAGE_RECEIVED is broadcast to the payload's room.
SendMessageDone(t) ==
  /\ t \in tasks /\ t.kind = "SEND_MESSAGE" /\ t.pc = "sendMessage"
  /\ sendMessageError(users, t.room, t.user) = ""
  /\ messages' = Append(messages, Message(t.room, t.user))
  /\ emitted' = <<[event |-> "message:sent", user |-> t.user]>>
  /\ timers' = handleTypingStopTimers(timers, state[t.conn], t.conn)
  /\ state' = [state EXCEPT ![t.conn] = handleTypingStopState(@)]
  /\ tasks' = tasks \ {t}
  /\ sent' = handleTypingStopSent(roomSubscriptions, state[t.conn], t.conn, t.room)
             \o broadcastToRoom(roomSubscriptions, connections, wsState, t.room,
                  MessageEvent("MESSAGE_RECEIVED", t.room, t.user, Len(messages) + 1), NoConn)
  /\ lastOp' = Op("SEND_MESSAGE:sendMessage", t.conn, t.room, "done")
  /\ UNCHANGED <<registry, wsState, users, participants, now, frames, switch, frameLimit, events, rateWindow, failures>>

\* messages.findById of the message repository: soft-deleted rows are not found.
findById(msgs, messageId) ==
  messageId \in DOMAIN msgs /\ ~msgs[messageId].deleted

\* ------------------------------------- SEND_MESSAGE, await by await
\* SendMessageDone is sendMessage with its awaits settling back to back.  The
\* actions below resume the handler one storage await at a time: the message
\* is saved, then messageToDTO looks up the author and, for a reply, the
\* message replied to and its author, and only then the handler broadcasts.

\* handleSendMessage for a payload with replyTo, up to `await useCases.sendMessage`.
RecvSendReply(c, roomId, replyTo) ==
  /\ CanReceive(c) /\ CanSuspend /\ HasConnection(c)
  /\ validateUserAuthorized(state[c])
  /\ checkRateLimit(state[c], now)
  /\ state' = [state EXCEPT ![c] = checkRateLimitState(@, now)]
  /\ Received(c)
  /\ tasks' = tasks \cup
       {[Task(c, FreshSeq(c), "SEND_MESSAGE", "sendMessage", roomId, state[c].userId)
           EXCEPT !.replyTo = replyTo]}
  /\ sent' = <<>>
  /\ emitted' = <<>>
  /\ rateWindow' = [rateWindow EXCEPT ![c] = Attempt(@, now)]
  /\ lastOp' = Op("SEND_MESSAGE", c, roomId, "await")
  /\ UNCHANGED <<registry, wsState, storage, timers, now, frameLimit, events, failures>>

\* sendMessage up to the end of `await uow.messages.save(message)`: the
\* message is persisted and message:sent is emitted; messageToDTO starts.
SendMessageSaved(t) ==
  /\ t \in tasks /\ t.kind = "SEND_MESSAGE" /\ t.pc = "sendMessage"
  /\ sendMessageError(users, t.room, t.user) = ""
  /\ messages' = Append(messages, [Message(t.room, t.user) EXCEPT !.replyTo = t.replyTo])
  /\ emitted' = <<[event |-> "message:sent", user |-> t.user]>>
  /\ tasks' = (tasks \ {t}) \cup
       {[t EXCEPT !.pc = "messageToDTO", !.messageId = Len(messages) + 1]}
  /\ sent' = <<>>
  /\ lastOp' = Op("SEND_MESSAGE:save", t.conn, t.room, "await")
  /\ UNCHANGED <<registry, wsState, state, users, participants, timers, now, frames, switch, frameLimit, events, rateWindow, failures>>

\* The await of messageToDTO that follows the one t is suspended at, "" when
\* messageToDTO returns.
messageToDTONext(msgs, t) ==
  IF t.pc = "messageToDTO" /\ t.replyTo # NoMessage THEN "findReply"
  ELSE IF t.pc = "findReply" /\ findById(msgs, t.replyTo) THEN "findReplyAuthor"
  ELSE ""

\* messageToDTO goes on to its next lookup.
SendMessageLookup(t) ==
  /\ t \in tasks /\ t.kind = "SEND_MESSAGE"
  /\ t.pc \in {"messageToDTO", "findReply"}
  /\ messageToDTONext(messages, t) # ""
  /\ tasks' = (tasks \ {t}) \cup {[t EXCEPT !.pc = messageToDTONext(messages, t)]}
  /\ sent' = <<>>
  /\ emitted' = <<>>
  /\ lastOp' = Op("SEND_MESSAGE:messageToDTO", t.conn, t.room, "await")
  /\ UNCHANGED <<registry, wsState, state, storage, timers, now, frames, switch, frameLimit, events, rateWindow, failures>>

\* messageToDTO returns: the sender's typing is stopped and MESSAGE_RECEIVED
\* is broadcast to the payload's room.
SendMessageBroadcast(t) ==
  /\ t \in tasks /\ t.kind = "SEND_MESSAGE"
  /\ t.pc \in {"messageToDTO", "findReply", "findReplyAuthor"}
  /\ messageToDTONext(messages, t) = ""
  /\ timers' = handleTypingStopTimers(timers, state[t.conn], t.conn)
  /\ state' = [state EXCEPT ![t.conn] = handleTypingStopState(@)]
  /\ tasks' = tasks \ {t}
  /\ sent' = handleTypingStopSent(roomSubscriptions, state[t.conn], t.conn, t.room)
             \o broadcastToRoom(roomSubscriptions, connections, wsState, t.room,
                  MessageEvent("MESSAGE_RECEIVED", t.room, t.user, t.messageId), NoConn)
  /\ emitted' = <<>>
  /\ lastOp' = Op("SEND_MESSAGE:broadcast", t.conn, t.room, "done")
  /\ UNCHANGED <<registry, wsState, storage, now, frames, switch, frameLimit, events, rateWindow, failures>>


\* ------------------------------------------- room history of a joiner
\* messageToDTO, as far as the reply reference goes: the DTO of a reply names
\* the message replied to and its author when messages.findById finds it.
messageToDTO(msgs, messageId) ==
  LET replyTo == msgs[messageId].replyTo
      found == replyTo # NoMessage /\ findById(msgs, replyTo)
  IN  [id |-> messageId,
       replyTo |-> IF found THEN replyTo ELSE NoMessage,
       authorUsername |-> IF found THEN msgs[replyTo].authorId ELSE NoUser]

\* getRoomMessagesWithAuthors: messages.findByRoom(roomId, 50), which leaves
\* out soft-deleted rows, each message through messageToDTO (the store of a
\* run stays below 50 messages).
RECURSIVE getRoomMessagesWithAuthors(_, _, _)
getRoomMessagesWithAuthors(msgs, roomId, n) ==
  IF n = 0 THEN <<>>
  ELSE getRoomMessagesWithAuthors(msgs, roomId, n - 1)
       \o (IF msgs[n].roomId = roomId /\ ~msgs[n].deleted
           THEN <<messageToDTO(msgs, n)>> ELSE <<>>)

\* joinRoom after getOrCreateUser: rooms.addParticipant returns and
\* getRoomMessagesWithAuthors reads the history the joiner will be sent.
JoinRoomReadHistory(t) ==
  /\ t \in tasks /\ t.kind = "JOIN_ROOM" /\ t.pc = "addParticipant"
  /\ participants' = [participants EXCEPT ![t.room] = @ \cup {t.user}]
  /\ tasks' = (tasks \ {t}) \cup
       {[t EXCEPT !.pc = "getOnlineParticipants",
                  !.history = getRoomMessagesWithAuthors(messages, t.room, Len(messages))]}
  /\ sent' = <<>>
  /\ emitted' = <<>>
  /\ lastOp' = Op("JOIN_ROOM:getRoomMessagesWithAuthors", t.conn, t.room, "await")
  /\ UNCHANGED <<registry, wsState, state, users, messages, timers, now, frames, switch, frameLimit, events, rateWindow, failures>>

\* getOnlineParticipants and getParticipantCount return, joinRoom succeeds
\* and handleJoinRoom subscribes the connection.
JoinRoomReturned(t) ==
  /\ t \in tasks /\ t.kind = "JOIN_ROOM" /\ t.pc = "getOnlineParticipants"
  /\ JoinRoomSucceeds(t, users)

\* ------------------------------------------------------------ EDIT_MESSAGE
\* handleEditMessage returns at once when the session has no userId.
RecvEditIgnored(c, messageId) ==
  /\ CanReceive(c) /\ HasConnection(c)
  /\ state[c].userId = NoUser
  /\ Received(c)
  /\ sent' = <<>>
  /\ emitted' = <<>>
  /\ lastOp' = Op("EDIT_MESSAGE", c, NoRoom, "ignored")
  /\ UNCHANGED <<registry, wsState, state, storage, tasks, timers, now, frameLimit, events, rateWindow, failures>>

\* handleEditMessage, up to `await useCases.editMessage`.
RecvEditMessage(c, messageId) ==
  /\ CanReceive(c) /\ CanSuspend /\ HasConnection(c)
  /\ state[c].userId # NoUser
  /\ Received(c)
  /\ tasks' = tasks \cup
       {MessageTask(c, FreshSeq(c), "EDIT_MESSAGE", "editMessage", state[c].userId, messageId)}
  /\ sent' = <<>>
  /\ emitted' = <<>>
  /\ lastOp' = Op("EDIT_MESSAGE", c, NoRoom, "await")
  /\ UNCHANGED <<registry, wsState, state, storage, timers, now, frameLimit, events, rateWindow, failures>>

\* Faulty variant of editMessageError: the author is not compared.
editMessageErrorAnyAuthor(msgs, messageId, userId) ==
  IF ~findById(msgs, messageId) THEN "MESSAGE_NOT_FOUND" ELSE ""

\* The failure of useCases.editMessage, "" when it succeeds.
editMessageError(msgs, messageId, userId) ==
  IF ~findById(msgs, messageId) THEN "MESSAGE_NOT_FOUND"
  ELSE IF msgs[messageId].authorId # userId THEN "UNAUTHORIZED"
  ELSE ""

\* useCases.editMessage fails: the code is unicast, INTERNAL_ERROR for a code
\* other than MESSAGE_NOT_FOUND and UNAUTHORIZED.
EditMessageFails(t) ==
  /\ t \in tasks /\ t.kind = "EDIT_MESSAGE" /\ t.pc = "editMessage"
  /\ editMessageError(messages, t.messageId, t.user) # ""
  /\ tasks' = tasks \ {t}
  /\ sent' = Send(wsState, t.conn,
               ServerEvent("ERROR", NoRoom, NoUser,
                 IF editMessageError(messages, t.messageId, t.user)
                      \in {"MESSAGE_NOT_FOUND", "UNAUTHORIZED"}
                 THEN editMessageError(messages, t.messageId, t.user)
                 ELSE "INTERNAL_ERROR"))
  /\ emitted' = <<>>
  /\ lastOp' = Op("EDIT_MESSAGE:editMessage", t.conn, NoRoom, "error")
  /\ UNCHANGED <<registry, wsState, state, storage, timers, now, frames, switch, frameLimit, events, rateWindow, failures>>

\* useCases.editMessage updates the content; MESSAGE_EDITED is broadcast to the
\* room of the session, if it has one.
EditMessageDone(t) ==
  /\ t \in tasks /\ t.kind = "EDIT_MESSAGE" /\ t.pc = "editMessage"
  /\ editMessageError(messages, t.messageId, t.user) = ""
  /\ messages' = [messages EXCEPT ![t.messageId].content = "edited"]
  /\ emitted' = <<[event |-> "message:edited", user |-> NoUser]>>
  /\ tasks' = tasks \ {t}
  /\ sent' = IF state[t.conn].roomId # NoRoom
             THEN broadcastToRoom(roomSubscriptions, connections, wsState,
                    state[t.conn].roomId,
                    MessageEvent("MESSAGE_EDITED", NoRoom, NoUser, t.messageId), NoConn)
             ELSE <<>>
  /\ lastOp' = Op("EDIT_MESSAGE:editMessage", t.conn, NoRoom, "done")
  /\ UNCHANGED <<registry, wsState, state, users, participants, timers, now, frames, switch, frameLimit, events, rateWindow, failures>>

\* ---------------------------------------------------------- DELETE_MESSAGE
\* handleDeleteMessage returns at once when the session has no userId.
RecvDeleteIgnored(c, messageId) ==
  /\ CanReceive(c) /\ HasConnection(c)
  /\ state[c].userId = NoUser
  /\ Received(c)
  /\ sent' = <<>>
  /\ emitted' = <<>>
  /\ lastOp' = Op("DELETE_MESSAGE", c, NoRoom, "ignored")
  /\ UNCHANGED <<registry, wsState, state, storage, tasks, timers, now, frameLimit, events, rateWindow, failures>>

\* handleDeleteMessage, up to `await useCases.deleteMessage`.
RecvDeleteMessage(c, messageId) ==
  /\ CanReceive(c) /\ CanSuspend /\ HasConnection(c)
  /\ state[c].userId # NoUser
  /\ Received(c)
  /\ tasks' = tasks \cup
       {MessageTask(c, FreshSeq(c), "DELETE_MESSAGE", "deleteMessage", state[c].userId, messageId)}
  /\ sent' = <<>>
  /\ emitted' = <<>>
  /\ lastOp' = Op("DELETE_MESSAGE", c, NoRoom, "await")
  /\ UNCHANGED <<registry, wsState, state, storage, timers, now, frameLimit, events, rateWindow, failures>>

\* The failure of useCases.deleteMessage, "" when it succeeds.
deleteMessageError(msgs, messageId, userId) ==
  IF ~findById(msgs, messageId) THEN "MESSAGE_NOT_FOUND"
  ELSE IF msgs[messageId].authorId # userId THEN "UNAUTHORIZED"
  ELSE ""

\* useCases.deleteMessage fails: its code is unicast.
DeleteMessageFails(t) ==
  /\ t \in tasks /\ t.kind = "DELETE_MESSAGE" /\ t.pc = "deleteMessage"
  /\ deleteMessageError(messages, t.messageId, t.user) # ""
  /\ tasks' = tasks \ {t}
  /\ sent' = Send(wsState, t.conn,
               ServerEvent("ERROR", NoRoom, NoUser,
                 deleteMessageError(messages, t.messageId, t.user)))
  /\ emitted' = <<>>
  /\ lastOp' = Op("DELETE_MESSAGE:deleteMessage", t.conn, NoRoom, "error")
  /\ UNCHANGED <<registry, wsState, state, storage, timers, now, frames, switch, frameLimit, events, rateWindow, failures>>

\* useCases.deleteMessage marks the message deleted; MESSAGE_DELETED is
\* broadcast to the room of the session, if it has one.
DeleteMessageDone(t) ==
  /\ t \in tasks /\ t.kind = "DELETE_MESSAGE" /\ t.pc = "deleteMessage"
  /\ deleteMessageError(messages, t.messageId, t.user) = ""
  /\ messages' = [messages EXCEPT ![t.messageId].deleted = TRUE]
  /\ emitted' = <<[event |-> "message:deleted", user |-> NoUser]>>
  /\ tasks' = tasks \ {t}
  /\ sent' = IF state[t.conn].roomId # NoRoom
             THEN broadcastToRoom(roomSubscriptions, connections, wsState,
                    state[t.conn].roomId,
                    MessageEvent("MESSAGE_DELETED", NoRoom, NoUser, t.messageId), NoConn)
             ELSE <<>>
  /\ lastOp' = Op("DELETE_MESSAGE:deleteMessage", t.conn, NoRoom, "done")
  /\ UNCHANGED <<registry, wsState, state, users, participants, timers, now, frames, switch, frameLimit, events, rateWindow, failures>>

\* ----------------------------------------------------------- UPDATE_STATUS
\* handleUpdateStatus returns at once when the session has no userId.
RecvUpdateStatusIgnored(c, status) ==
  /\ CanReceive(c) /\ HasConnection(c)
  /\ state[c].userId = NoUser
  /\ Received(c)
  /\ sent' = <<>>
  /\ emitted' = <<>>
  /\ lastOp' = Op("UPDATE_STATUS", c, NoRoom, "ignored")
  /\ UNCHANGED <<registry, wsState, state, storage, tasks, timers, now, frameLimit, events, rateWindow, failures>>

\* handleUpdateStatus, up to `await useCases.updateUserStatus`.
RecvUpdateStatus(c, status) ==
  /\ CanReceive(c) /\ CanSuspend /\ HasConnection(c)
  /\ state[c].userId # NoUser
  /\ Received(c)
  /\ tasks' = tasks \cup
       {StatusTask(c, FreshSeq(c), "UPDATE_STATUS", "updateUserStatus", state[c].userId, status)}
  /\ sent' = <<>>
  /\ emitted' = <<>>
  /\ lastOp' = Op("UPDATE_STATUS", c, NoRoom, "await")
  /\ UNCHANGED <<registry, wsState, state, storage, timers, now, frameLimit, events, rateWindow, failures>>

\* useCases.updateUserStatus stores the status and emits user:status-changed;
\* the listener of setupEventListeners starts and suspends at
\* `await this.getRoomsForUser`; handleUpdateStatus completes and sends nothing.
UpdateStatusDone(t) ==
  /\ t \in tasks /\ t.kind = "UPDATE_STATUS" /\ t.pc = "updateUserStatus"
  /\ users[t.user].exists
  /\ users' = updateStatus(users, t.user, t.status)
  /\ emitted' = <<[event |-> "user:status-changed", user |-> t.user]>>
  /\ tasks' = (tasks \ {t}) \cup
       {StatusTask(NoConn, FreshSeq(NoConn), "user:status-changed", "getRoomsForUser",
                   t.user, t.status)}
  /\ sent' = <<>>
  /\ lastOp' = Op("UPDATE_STATUS:updateUserStatus", t.conn, NoRoom, "done")
  /\ UNCHANGED <<registry, wsState, state, participants, messages, timers, now, frames, switch, frameLimit, events, rateWindow, failures>>

\* rooms.findAll returns the rooms in their stored order.
RoomOrder == <<"general", "random">>

\* Faulty variant of getRoomsForUser: only the last room of the user.
getRoomsForUserLastOnly(parts, userId) ==
  LET all == SelectSeq(RoomOrder, LAMBDA r : userId \in parts[r])
  IN IF all = <<>> THEN <<>> ELSE <<all[Len(all)]>>

\* getRoomsForUser: the rooms whose persisted participants hold the user.
getRoomsForUser(parts, userId) ==
  SelectSeq(RoomOrder, LAMBDA r : userId \in parts[r])

RECURSIVE BroadcastEach(_, _, _, _, _)
BroadcastEach(subs, conns, ws, rooms, event) ==
  IF rooms = <<>> THEN <<>>
  ELSE broadcastToRoom(subs, conns, ws, Head(rooms), event, NoConn)
       \o BroadcastEach(subs, conns, ws, Tail(rooms), event)

\* The user:status-changed listener resumes: USER_STATUS_CHANGED is broadcast
\* to every room of the user, nobody excluded.
StatusListenerDone(t) ==
  /\ t \in tasks /\ t.kind = "user:status-changed" /\ t.pc = "getRoomsForUser"
  /\ tasks' = tasks \ {t}
  /\ sent' = BroadcastEach(roomSubscriptions, connections, wsState,
               getRoomsForUser(participants, t.user), StatusEvent(t.user, t.status))
  /\ emitted' = <<>>
  /\ lastOp' = Op("user:status-changed", NoConn, NoRoom, "done")
  /\ UNCHANGED <<registry, wsState, state, storage, timers, now, frames, switch, frameLimit, events, rateWindow, failures>>

\* ------------------------------------------------------- malformed frames
\* Raw frames that are no client event: text that is not JSON, JSON texts of
\* the falsy values, and JSON values that fail ClientEventSchema.
RawFrames == {"{", "null", "false", "0", "\"\"", "{}", "[]", "1", "\"x\""}

\* JSON.parse: "throws" for text that is not JSON, else the value.
JSONparse(rawMessage) == IF rawMessage = "{" THEN "throws" ELSE rawMessage

\* JavaScript truthiness of a parsed value.
Truthy(parsed) == parsed \notin {"null", "false", "0", "\"\""}

\* What handleMessage answers to a raw frame that is no client event:
\* parseMessage sends INVALID_MESSAGE when JSON.parse throws; `if (!parsed)
\* return` ends the handler for a falsy value; validateMessage sends
\* INVALID_MESSAGE for the rest.
handleMessageInvalid(ws, c, rawMessage) ==
  IF JSONparse(rawMessage) = "throws"
  THEN Send(ws, c, ServerEvent("ERROR", NoRoom, NoUser, "INVALID_MESSAGE"))
  ELSE IF ~Truthy(JSONparse(rawMessage)) THEN <<>>
  ELSE Send(ws, c, ServerEvent("ERROR", NoRoom, NoUser, "INVALID_MESSAGE"))

RecvInvalid(c, rawMessage) ==
  /\ CanReceive(c) /\ HasConnection(c)
  /\ Received(c)
  /\ sent' = handleMessageInvalid(wsState, c, rawMessage)
  /\ emitted' = <<>>
  /\ lastOp' = Op("handleMessage:invalid", c, NoRoom,
                  IF JSONparse(rawMessage) = "throws" THEN "parse"
                  ELSE IF ~Truthy(JSONparse(rawMessage)) THEN "falsy" ELSE "schema")
  /\ UNCHANGED <<registry, wsState, state, storage, tasks, timers, now, frameLimit, events, rateWindow, failures>>

\* ------------------------------------------------------------ TYPING_START
RecvTypingStartIgnored(c, roomId) ==
  /\ CanReceive(c) /\ HasConnection(c)
  /\ ~validateUserAuthorized(state[c])
  /\ Received(c)
  /\ sent' = <<>>
  /\ emitted' = <<>>
  /\ lastOp' = Op("TYPING_START", c, roomId, "ignored")
  /\ UNCHANGED <<registry, wsState, state, storage, tasks, timers, now, frameLimit, events, rateWindow, failures>>

\* Faulty variant of handleTypingStartTimers: the armed timer is not cleared.
handleTypingStartTimersKeepsOld(ts, st, c, handle, roomId, t) ==
  ts \cup {[id |-> handle, conn |-> c, room |-> roomId,
            deadline |-> t + TYPING_TIMEOUT_MS, armedIn |-> st.roomId]}

\* handleTypingStart: the timers after clearing the armed one (if any) and
\* arming a new one with the given handle.
handleTypingStartTimers(ts, st, c, handle, roomId, t) ==
  (IF st.typingTimeout # NoTimer THEN clearTimeout(ts, c, st.typingTimeout) ELSE ts)
  \cup {[id |-> handle, conn |-> c, room |-> roomId,
         deadline |-> t + TYPING_TIMEOUT_MS, armedIn |-> st.roomId]}

RecvTypingStart(c, roomId) ==
  /\ CanReceive(c) /\ HasConnection(c)
  /\ validateUserAuthorized(state[c])
  /\ Received(c)
  /\ timers' = handleTypingStartTimers(timers, state[c], c, FreshHandle(c), roomId, now)
  /\ state' = [state EXCEPT ![c].typingTimeout = FreshHandle(c)]
  /\ sent' = broadcastToRoom(roomSubscriptions, connections, wsState, roomId,
               ServerEvent("USER_TYPING", roomId, state[c].userId, ""), c)
  /\ emitted' = <<>>
  /\ lastOp' = Op("TYPING_START", c, roomId, "done")
  /\ UNCHANGED <<registry, wsState, storage, tasks, now, frameLimit, events, rateWindow, failures>>

\* ------------------------------------------------------------- TYPING_STOP
RecvTypingStop(c, roomId) ==
  /\ CanReceive(c) /\ HasConnection(c)
  /\ Received(c)
  /\ timers' = handleTypingStopTimers(timers, state[c], c)
  /\ state' = [state EXCEPT ![c] = handleTypingStopState(@)]
  /\ sent' = handleTypingStopSent(roomSubscriptions, state[c], c, roomId)
  /\ emitted' = <<>>
  /\ lastOp' = Op("TYPING_STOP", c, roomId,
                  IF state[c].userId # NoUser THEN "done" ELSE "ignored")
  /\ UNCHANGED <<registry, wsState, storage, tasks, now, frameLimit, events, rateWindow, failures>>

\* The setTimeout callback of handleTypingStart runs: handleTypingStop with
\* the payload of the TYPING_START frame that armed it.
TimerFires(tm) ==
  /\ tm \in timers
  /\ now >= tm.deadline
  /\ timers' = handleTypingStopTimers(timers \ {tm}, state[tm.conn], tm.conn)
  /\ state' = [state EXCEPT ![tm.conn] = handleTypingStopState(@)]
  /\ sent' = handleTypingStopSent(roomSubscriptions, state[tm.conn], tm.conn, tm.room)
  /\ emitted' = <<>>
  /\ lastOp' = [Op("timer", tm.conn, tm.room, "done") EXCEPT !.aux = tm.armedIn]
  /\ UNCHANGED <<registry, wsState, storage, tasks, now, frames, switch, frameLimit, events, rateWindow, failures>>

\* ------------------------------------------------------------------- clock
Tick ==
  /\ now < StartTime + MaxTicks * TickMs
  /\ now' = now + TickMs
  /\ sent' = <<>>
  /\ emitted' = <<>>
  /\ lastOp' = Op("tick", NoConn, NoRoom, "done")
  /\ UNCHANGED <<registry, wsState, state, storage, tasks, timers, frames, switch, frameLimit, events, rateWindow, failures>>

\* Half a rate window passes.
RateTick ==
  /\ now < StartTime + MaxRateTicks * RateTickMs
  /\ now' = now + RateTickMs
  /\ sent' = <<>>
  /\ emitted' = <<>>
  /\ lastOp' = Op("tick", NoConn, NoRoom, "done")
  /\ UNCHANGED <<registry, wsState, state, storage, tasks, timers, frames, switch,
                 frameLimit, events, rateWindow, failures>>

\* ------------------------------------------------------------ specification
\* Connections, rooms and teardown: JOIN_ROOM and LEAVE_ROOM frames of both
\* connections, transport open and close, storage failures during teardown.
Next ==
  \/ \E c \in Conns : Open(c)
  \/ \E c \in Conns : Close(c)
  \/ \E c \in Conns : RemoveAgain(c)
  \/ \E t \in tasks : RemoveFails(t)
  \/ \E t \in tasks : RemoveStatusDone(t)
  \/ \E t \in tasks : RemoveLastSeenDone(t)
  \/ \E c \in Conns, r \in Rooms : \E u \in UsernamesOf(c) : RecvJoinRoom(c, r, u)
  \/ \E t \in tasks : JoinRoomDone(t)
  \/ \E t \in tasks : JoinRoomReplies(t)
  \/ \E c \in Conns, r \in Rooms : RecvLeaveRoomIgnored(c, r)
  \/ \E c \in Conns, r \in Rooms : RecvLeaveRoom(c, r)
  \/ \E t \in tasks : LeaveRoomDone(t)

Spec == Init /\ [][Next]_vars

\* Typing: both connections have joined "general", alice on the first and bob
\* on the second, and every handler has returned (a state Spec reaches).
BothJoined ==
  /\ connections = Conns
  /\ wsState = [c \in Conns |-> "open"]
  /\ state = [c \in Conns |->
       [EmptyState EXCEPT !.userId = IF c = 1 THEN "alice" ELSE "bob",
                          !.username = IF c = 1 THEN "alice" ELSE "bob",
                          !.roomId = "general"]]
  /\ userConnections = [u \in Usernames |-> IF u = "alice" THEN 1 ELSE 2]
  /\ roomSubscriptions = [r \in RoomIds |-> IF r = "general" THEN Conns ELSE {}]
  /\ users = [u \in Usernames |->
       NewUser]
  /\ participants = [r \in Rooms |-> IF r = "general" THEN Usernames ELSE {}]
  /\ messages = <<>>
  /\ tasks = {}
  /\ timers = {}
  /\ now = StartTime
  /\ frames = 2
  /\ switch = [c \in Conns |-> NoSwitch]
  /\ failures = 0
  /\ rateWindow = [c \in Conns |-> NoWindow]
  /\ sent = Send(wsState, 2, ServerEvent("CONNECTED", NoRoom, "bob", ""))
            \o Send(wsState, 2, ServerEvent("ROOM_HISTORY", "general", NoUser, ""))
            \o Send(wsState, 1, ServerEvent("USER_JOINED", "general", "bob", ""))
  /\ emitted = <<>>
  /\ lastOp = [op |-> "JOIN_ROOM:getRooms", conn |-> 2, room |-> "general",
               outcome |-> "done", aux |-> "idle"]

InitTyping == BothJoined /\ frameLimit = frames + MaxTypingFrames /\ events = NewEmitter

\* The connections that send frames and close under SpecTyping; the other
\* connection stays in its room and receives the broadcasts.
Typists == {c \in Conns : c # LastConn}

\* Typing frames, messages, room switches under the session's name, the
\* typing timers and the clock, transport close.
NextTyping ==
  \/ \E c \in Typists, r \in Rooms : RecvTypingStart(c, r)
  \/ \E c \in Typists, r \in Rooms : RecvTypingStop(c, r)
  \/ \E tm \in timers : TimerFires(tm)
  \/ Tick
  \/ \E c \in Typists, r \in Rooms : RecvSendMessage(c, r)
  \/ \E t \in tasks : SendMessageDone(t)
  \/ \E c \in Typists, r \in Rooms : RecvLeaveRoom(c, r)
  \/ \E t \in tasks : LeaveRoomDone(t)
  \/ \E c \in Typists, r \in Rooms : RecvJoinRoom(c, r, state[c].username)
  \/ \E t \in tasks : JoinRoomDone(t)
  \/ \E t \in tasks : JoinRoomReplies(t)
  \/ \E c \in Typists : Close(c)
  \/ \E t \in tasks : RemoveStatusDone(t)
  \/ \E t \in tasks : RemoveLastSeenDone(t)

SpecTyping == InitTyping /\ [][NextTyping]_vars

\* Rate limiting: from the state where both connections have joined, the
\* first connection sends SEND_MESSAGE frames for its room while the clock
\* advances.
InitRate == BothJoined /\ frameLimit = frames + MaxRateFrames /\ events = NewEmitter

NextRate ==
  \/ \E c \in Typists : RecvSendMessage(c, state[c].roomId)
  \/ \E c \in Typists : RecvSendRateLimited(c, state[c].roomId)
  \/ \E t \in tasks : SendMessageDone(t)
  \/ RateTick

SpecRate == InitRate /\ [][NextRate]_vars

\* Frames of joined and unjoined sessions: alice has joined "general" on the
\* first connection and persisted one message; the second connection is open
\* and has not joined (a state Spec extended with SEND_MESSAGE reaches).
OneJoined ==
  /\ connections = Conns
  /\ wsState = [c \in Conns |-> "open"]
  /\ state = [c \in Conns |->
       IF c = 1
       THEN [EmptyState EXCEPT !.userId = "alice", !.username = "alice",
                               !.roomId = "general",
                               !.lastMessageTime = StartTime, !.messageCount = 1]
       ELSE EmptyState]
  /\ userConnections = [u \in Usernames |-> IF u = "alice" THEN 1 ELSE NoConn]
  /\ roomSubscriptions = [r \in RoomIds |-> IF r = "general" THEN {1} ELSE {}]
  /\ users = [u \in Usernames |->
       IF u = "alice" THEN NewUser
       ELSE NoPersistedUser]
  /\ participants = [r \in Rooms |-> IF r = "general" THEN {"alice"} ELSE {}]
  /\ messages = <<Message("general", "alice")>>
  /\ tasks = {}
  /\ timers = {}
  /\ now = StartTime
  /\ frames = 2
  /\ switch = [c \in Conns |-> NoSwitch]
  /\ failures = 0
  /\ rateWindow = [c \in Conns |-> IF c = 1 THEN Attempt(NoWindow, StartTime) ELSE NoWindow]
  /\ sent = Send(wsState, 1, MessageEvent("MESSAGE_RECEIVED", "general", "alice", 1))
  /\ emitted = <<[event |-> "message:sent", user |-> "alice"]>>
  /\ lastOp = [op |-> "SEND_MESSAGE:sendMessage", conn |-> 1, room |-> "general",
               outcome |-> "done", aux |-> "idle"]

InitFrames == OneJoined /\ frameLimit = frames + MaxSessionFrames /\ events = NewEmitter

\* The rooms and message ids that the frames of SpecFrames name: one that
\* exists and one that does not.
PayloadRooms == {"general", NoSuchRoom}
PayloadMessages == {1, 2}

NextFrames ==
  \/ \E c \in Conns, r \in PayloadRooms : RecvJoinRoom(c, r, IF c = 1 THEN "alice" ELSE "bob")
  \/ \E t \in tasks : JoinRoomFails(t)
  \/ \E t \in tasks : JoinRoomDone(t)
  \/ \E t \in tasks : JoinRoomReplies(t)
  \/ \E c \in Conns, r \in PayloadRooms : RecvLeaveRoomIgnored(c, r)
  \/ \E c \in Conns, r \in PayloadRooms : RecvLeaveRoom(c, r)
  \/ \E t \in tasks : LeaveRoomDone(t)
  \/ \E c \in Conns, r \in PayloadRooms : RecvSendUnauthorized(c, r)
  \/ \E c \in Conns, r \in PayloadRooms : RecvSendMessage(c, r)
  \/ \E t \in tasks : SendMessageFails(t)
  \/ \E t \in tasks : SendMessageDone(t)
  \/ \E c \in Conns, m \in PayloadMessages : RecvEditIgnored(c, m)
  \/ \E c \in Conns, m \in PayloadMessages : RecvEditMessage(c, m)
  \/ \E t \in tasks : EditMessageFails(t)
  \/ \E t \in tasks : EditMessageDone(t)
  \/ \E c \in Conns, m \in PayloadMessages : RecvDeleteIgnored(c, m)
  \/ \E c \in Conns, m \in PayloadMessages : RecvDeleteMessage(c, m)
  \/ \E t \in tasks : DeleteMessageFails(t)
  \/ \E t \in tasks : DeleteMessageDone(t)
  \/ \E c \in Conns, r \in PayloadRooms : RecvTypingStartIgnored(c, r)
  \/ \E c \in Conns, r \in PayloadRooms : RecvTypingStop(c, r)
  \/ \E c \in Conns : RecvUpdateStatusIgnored(c, "away")
  \/ \E c \in Conns, raw \in RawFrames : RecvInvalid(c, raw)

SpecFrames == InitFrames /\ [][NextFrames]_vars

\* Presence: from the state where both connections have joined "general", the
\* connections change rooms, set their status and close.
InitStatus == BothJoined /\ frameLimit = frames + MaxStatusFrames /\ events = NewEmitter

Statuses == {"away"}

NextStatus ==
  \/ \E c \in Conns, r \in Rooms : RecvJoinRoom(c, r, state[c].username)
  \/ \E t \in tasks : JoinRoomDone(t)
  \/ \E t \in tasks : JoinRoomReplies(t)
  \/ \E c \in Conns, r \in Rooms : RecvLeaveRoom(c, r)
  \/ \E t \in tasks : LeaveRoomDone(t)
  \/ \E c \in Conns, s \in Statuses : RecvUpdateStatus(c, s)
  \/ \E t \in tasks : UpdateStatusDone(t)
  \/ \E t \in tasks : StatusListenerDone(t)
  \/ \E c \in Conns : Close(c)
  \/ \E t \in tasks : RemoveStatusDone(t)
  \/ \E t \in tasks : RemoveLastSeenDone(t)

SpecStatus == InitStatus /\ [][NextStatus]_vars

\* Message order: from the state where both connections have joined
\* "general", both send messages and replies to it, and each handler is
\* resumed await by await.
InitOrder == BothJoined /\ frameLimit = frames + MaxOrderFrames /\ events = NewEmitter

ReplyTargets == {1}

NextOrder ==
  \/ \E c \in Conns : RecvSendMessage(c, state[c].roomId)
  \/ \E c \in Conns, m \in ReplyTargets : RecvSendReply(c, state[c].roomId, m)
  \/ \E t \in tasks : SendMessageSaved(t)
  \/ \E t \in tasks : SendMessageLookup(t)
  \/ \E t \in tasks : SendMessageBroadcast(t)

SpecOrder == InitOrder /\ [][NextOrder]_vars

\* Identity: both connections are open and nobody has joined (a state Spec
\* reaches); JOIN_ROOM frames for "general" name one user in two spellings,
\* and joinRoom is resumed await by await.
BothOpen ==
  /\ connections = Conns
  /\ wsState = [c \in Conns |-> "open"]
  /\ state = [c \in Conns |-> EmptyState]
  /\ userConnections = [u \in Usernames |-> NoConn]
  /\ roomSubscriptions = [r \in RoomIds |-> {}]
  /\ users = [u \in Usernames |-> NoPersistedUser]
  /\ participants = [r \in Rooms |-> {}]
  /\ messages = <<>>
  /\ tasks = {}
  /\ timers = {}
  /\ now = StartTime
  /\ frames = 0
  /\ switch = [c \in Conns |-> NoSwitch]
  /\ failures = 0
  /\ rateWindow = [c \in Conns |-> NoWindow]
  /\ sent = <<>>
  /\ emitted = <<>>
  /\ lastOp = [op |-> "open", conn |-> LastConn, room |-> NoRoom, outcome |-> "done",
               aux |-> "idle"]

InitIdentity == BothOpen /\ frameLimit = MaxIdentityFrames /\ events = NewEmitter

PayloadUsernames == {"alice", "Alice"}

NextIdentity ==
  \/ \E c \in Conns, name \in PayloadUsernames : RecvJoinRoom(c, "general", toLowerCase(name))
  \/ \E t \in tasks : JoinRoomFindUser(t)
  \/ \E t \in tasks : JoinRoomUserDone(t)
  \/ \E t \in tasks : JoinRoomSaveThrows(t)
  \/ \E t \in tasks : JoinRoomJoined(t)
  \/ \E t \in tasks : JoinRoomReplies(t)
  \/ \E c \in Conns, r \in Rooms : RecvLeaveRoom(c, r)
  \/ \E t \in tasks : LeaveRoomDone(t)

SpecIdentity == InitIdentity /\ [][NextIdentity]_vars

\* One user on two connections: both connections are open, each JOIN_ROOM
\* frame names "general" and alice, and either transport may close.  No
\* LEAVE_ROOM and no UPDATE_STATUS frame is sent.
InitShared == BothOpen /\ frameLimit = MaxSharedFrames /\ events = NewEmitter

NextShared ==
  \/ \E c \in Conns : RecvJoinRoom(c, "general", "alice")
  \/ \E t \in tasks : JoinRoomDone(t)
  \/ \E t \in tasks : JoinRoomReplies(t)
  \/ \E c \in Conns : Close(c)
  \/ \E t \in tasks : RemoveStatusDone(t)
  \/ \E t \in tasks : RemoveLastSeenDone(t)

SpecShared == InitShared /\ [][NextShared]_vars

\* A joiner and a thread: alice has joined "general" on the first connection
\* and persisted message 1; she sends messages and replies to message 1 and
\* deletes it, while the second connection joins "general" as bob, joinRoom
\* resumed await by await.
InitThread == OneJoined /\ frameLimit = frames + MaxThreadFrames /\ events = NewEmitter

NextThread ==
  \/ RecvSendMessage(1, "general")
  \/ RecvSendReply(1, "general", 1)
  \/ \E t \in tasks : SendMessageSaved(t)
  \/ \E t \in tasks : SendMessageLookup(t)
  \/ \E t \in tasks : SendMessageBroadcast(t)
  \/ RecvDeleteMessage(1, 1)
  \/ \E t \in tasks : DeleteMessageFails(t)
  \/ \E t \in tasks : DeleteMessageDone(t)
  \/ RecvJoinRoom(2, "general", "bob")
  \/ \E t \in tasks : JoinRoomFindUser(t)
  \/ \E t \in tasks : JoinRoomUserDone(t)
  \/ \E t \in tasks : JoinRoomReadHistory(t)
  \/ \E t \in tasks : JoinRoomReturned(t)
  \/ \E t \in tasks : JoinRoomReplies(t)

SpecThread == InitThread /\ [][NextThread]_vars

\* ------------------------------------------------- MessageContentSchema
\* A content string, by what the schema looks at: `lead` whitespace code units
\* before the first non-whitespace one, `body` code units from the first to the
\* last non-whitespace one (0 when there is none), `trail` whitespace code
\* units after it. A string of whitespace only has all of them in `lead`.
Content(lead, body, trail) == [lead |-> lead, body |-> body, trail |-> trail]

Contents ==
  {s \in [lead : 0..MaxPadding, body : BodyLengths, trail : 0..MaxPadding] :
     s.body = 0 => s.trail = 0}

length(str) == str.lead + str.body + str.trail

\* String.prototype.trim
trim(str) == Content(0, str.body, 0)

\* Faulty variant of safeParse: the length limits count the trimmed string.
safeParseTrimsFirst(str) ==
  IF length(trim(str)) < 1 \/ length(trim(str)) > MAX_MESSAGE_LENGTH
  THEN [success |-> FALSE, data |-> str]
  ELSE [success |-> TRUE, data |-> trim(str)]

\* MessageContentSchema.safeParse: z.string().min(1).max(MAX_MESSAGE_LENGTH)
\* checks the string as received, then .transform trims it.
safeParse(str) ==
  IF length(str) < 1 \/ length(str) > MAX_MESSAGE_LENGTH
  THEN [success |-> FALSE, data |-> str]
  ELSE [success |-> TRUE, data |-> trim(str)]

ContentEvents == {"SEND_MESSAGE", "EDIT_MESSAGE"}

\* The content of a SEND_MESSAGE or EDIT_MESSAGE payload goes through
\* MessageContentSchema; lastOp keeps the string received and the result.
SafeParseContent(type, str) ==
  /\ frames < frameLimit
  /\ frames' = frames + 1
  /\ lastOp' = [op |-> "MessageContentSchema", conn |-> NoConn, room |-> NoRoom,
                outcome |-> type,
                aux |-> [content |-> str, result |-> safeParse(str)]]
  /\ UNCHANGED <<registry, wsState, state, storage, tasks, timers, now, frameLimit, events,
                 switch, failures, rateWindow, sent, emitted>>

InitContent == BothOpen /\ frameLimit = MaxContentFrames /\ events = NewEmitter

NextContent ==
  \E type \in ContentEvents, str \in Contents : SafeParseContent(type, str)

SpecContent == InitContent /\ [][NextContent]_vars

\* ------------------------------------------------------- getRoomHistory
\* Stored messages as findByRoom sees them: id, room and createdAt. Messages
\* are stored in creation order, so createdAt never decreases along the
\* store; two messages created in the same millisecond share it.
NoBefore == 0

StoredMessage(id, roomId, createdAt) ==
  [id |-> id, roomId |-> roomId, createdAt |-> createdAt]

Stores ==
  UNION {{[i \in 1..n |-> StoredMessage(i, r[i], ts[i])] :
            r \in [1..n -> Rooms],
            ts \in {f \in [1..n -> 1..MaxCreatedAt] :
                      \A i \in 1..n, j \in 1..n : i < j => f[i] <= f[j]}} :
         n \in 0..MaxStored}

reverse(s) == [i \in 1..Len(s) |-> s[Len(s) + 1 - i]]

\* Array.prototype.slice(0, end), a negative end counting from the back.
slice(s, end) ==
  LET last == IF end < 0 THEN Len(s) + end ELSE end
  IN  IF last <= 0 THEN <<>>
      ELSE IF last >= Len(s) THEN s
      ELSE SubSeq(s, 1, last)

\* Array.prototype.sort((a, b) => b.createdAt - a.createdAt): newest first,
\* messages of one createdAt staying in their order.
RECURSIVE sort(_)
sort(s) ==
  IF s = <<>> THEN <<>>
  ELSE LET x == s[Len(s)]
           rest == sort(SubSeq(s, 1, Len(s) - 1))
           IsNewer(m) == m.createdAt >= x.createdAt
           IsOlder(m) == m.createdAt < x.createdAt
       IN  SelectSeq(rest, IsNewer) \o <<x>> \o SelectSeq(rest, IsOlder)

\* InMemoryMessageRepository.findByRoom (SQLiteMessageRepository: ORDER BY
\* created_at DESC LIMIT ?, then reversed).
findByRoom(msgs, roomId, limit, before) ==
  LET InRoom(m) == m.roomId = roomId
      IsBefore(m) == IF before # NoBefore THEN m.createdAt < before ELSE TRUE
  IN  reverse(slice(sort(SelectSeq(SelectSeq(msgs, InRoom), IsBefore)), limit))

\* messagesToReturn of getRoomHistory: `found` is oldest first, and
\* slice(0, -1) drops its last element.
getRoomHistoryMessages(found, limit) ==
  IF Len(found) > limit THEN slice(found, -1) ELSE found

getRoomHistory(msgs, roomId, limit, before) ==
  IF roomId \notin Rooms
  THEN [success |-> FALSE, code |-> "ROOM_NOT_FOUND", messages |-> <<>>,
        hasMore |-> FALSE]
  ELSE LET found == findByRoom(msgs, roomId, limit + 1, before)
       IN  [success |-> TRUE, code |-> "null",
            messages |-> getRoomHistoryMessages(found, limit),
            hasMore |-> Len(found) > limit]

\* One call of the use case; lastOp keeps the input and the result.
GetRoomHistory(roomId, limit, before) ==
  /\ frames < frameLimit
  /\ frames' = frames + 1
  /\ lastOp' = [op |-> "getRoomHistory", conn |-> NoConn, room |-> roomId,
                outcome |-> IF roomId \in Rooms THEN "success" ELSE "ROOM_NOT_FOUND",
                aux |-> [limit |-> limit, before |-> before,
                         result |-> getRoomHistory(messages, roomId, limit, before)]]
  /\ UNCHANGED <<registry, wsState, state, users, participants, messages, tasks,
                 timers, now, frameLimit, events, switch, failures, rateWindow, sent, emitted>>

InitHistory ==
  /\ connections = Conns
  /\ wsState = [c \in Conns |-> "open"]
  /\ state = [c \in Conns |-> EmptyState]
  /\ userConnections = [u \in Usernames |-> NoConn]
  /\ roomSubscriptions = [r \in RoomIds |-> {}]
  /\ users = [u \in Usernames |-> NoPersistedUser]
  /\ participants = [r \in Rooms |-> {}]
  /\ messages \in Stores
  /\ tasks = {}
  /\ timers = {}
  /\ now = StartTime
  /\ frames = 0
  /\ frameLimit = MaxHistoryFrames
  /\ events = NewEmitter
  /\ switch = [c \in Conns |-> NoSwitch]
  /\ failures = 0
  /\ rateWindow = [c \in Conns |-> NoWindow]
  /\ sent = <<>>
  /\ emitted = <<>>
  /\ lastOp = [op |-> "open", conn |-> LastConn, room |-> NoRoom, outcome |-> "done",
               aux |-> "idle"]

HistoryRooms == {"general", NoSuchRoom}
Limits == 1..MaxLimit
Befores == {NoBefore} \cup 2..MaxCreatedAt

NextHistory ==
  \E roomId \in HistoryRooms, limit \in Limits, before \in Befores :
    GetRoomHistory(roomId, limit, before)

SpecHistory == InitHistory /\ [][NextHistory]_vars

\* on(event, handler): the handler joins the Set of the event.
on(em, event, h) ==
  [em EXCEPT !.handlers[event] = @ \cup {h}]

\* Faulty variant of once: the handler is registered as it is.
onceNeverUnsubscribes(em, event, h) == on(em, event, h)

\* once(event, handler): on() with a wrapper that unsubscribes itself before
\* it calls the handler.
once(em, event, h) ==
  [on(em, event, h) EXCEPT !.wrapped = @ \cup {h}]

\* emit(event, data): every handler of the Set is called; a wrapper of once()
\* has left the Set when its handler runs.
emit(em, event) ==
  [em EXCEPT !.handlers[event] = @ \ em.wrapped,
             !.calls = [h \in HandlerIds |->
                          IF h \in em.handlers[event] THEN @[h] + 1 ELSE @[h]],
             !.emits = [h \in HandlerIds |->
                          IF em.registered[h].event = event THEN @[h] + 1 ELSE @[h]]]

\* The function on() returned: handlers.delete(handler).
unsubscribe(em, h) ==
  [em EXCEPT !.handlers[em.registered[h].event] = @ \ {h},
             !.removed = @ \cup ({h} \cap em.handlers[em.registered[h].event])]

\* off(event) without a handler: the Set of the event is dropped.
off(em, event) ==
  [em EXCEPT !.handlers[event] = {},
             !.removed = @ \cup em.handlers[event]]

\* removeAllListeners(): handlers.clear().
removeAllListeners(em) ==
  [em EXCEPT !.handlers = [e \in EventNames |-> {}],
             !.removed = @ \cup UNION {em.handlers[e] : e \in EventNames}]

listenerCount(em, event) == Cardinality(em.handlers[event])

\* One call on the emitter; h is the handler a registration brings.
EmitterCall(op, event, em) ==
  /\ frames < frameLimit
  /\ frames' = frames + 1
  /\ events' = em
  /\ lastOp' = [op |-> op, conn |-> NoConn, room |-> NoRoom, outcome |-> event,
                aux |-> "idle"]
  /\ UNCHANGED <<registry, wsState, state, storage, tasks, timers, now, frameLimit,
                 switch, failures, rateWindow, sent, emitted>>

FreshHandlers == {h \in HandlerIds : events.registered[h] = NoHandler}

Registered(em, event, h, isOnce) ==
  [em EXCEPT !.registered[h] = [event |-> event, once |-> isOnce]]

EmitterOn(event) ==
  /\ FreshHandlers # {}
  /\ LET h == CHOOSE x \in FreshHandlers : \A y \in FreshHandlers : x <= y
     IN  EmitterCall("on", event, Registered(on(events, event, h), event, h, FALSE))

EmitterOnce(event) ==
  /\ FreshHandlers # {}
  /\ LET h == CHOOSE x \in FreshHandlers : \A y \in FreshHandlers : x <= y
     IN  EmitterCall("once", event, Registered(once(events, event, h), event, h, TRUE))

EmitterEmit(event) == EmitterCall("emit", event, emit(events, event))

EmitterUnsubscribe(h) ==
  /\ events.registered[h] # NoHandler
  /\ EmitterCall("unsubscribe", events.registered[h].event, unsubscribe(events, h))

EmitterOff(event) == EmitterCall("off", event, off(events, event))

EmitterRemoveAll == EmitterCall("removeAllListeners", "null", removeAllListeners(events))

InitEmitter == BothOpen /\ frameLimit = MaxEmitterCalls /\ events = NewEmitter

NextEmitter ==
  \/ \E e \in EventNames : EmitterOn(e)
  \/ \E e \in EventNames : EmitterOnce(e)
  \/ \E e \in EventNames : EmitterEmit(e)
  \/ \E h \in HandlerIds : EmitterUnsubscribe(h)
  \/ \E e \in EventNames : EmitterOff(e)
  \/ EmitterRemoveAll

SpecEmitter == InitEmitter /\ [][NextEmitter]_vars

\* ================================================================== claims
SubscribedRooms(c) == {r \in RoomIds : c \in roomSubscriptions[r]}

\* C1: in every reachable state each connection id is in at most one room's
\* subscriber set, also after a JOIN_ROOM for a second room with no LEAVE_ROOM
\* before it.
C1_SingleActiveRoom ==
  \A c \in Conns : Cardinality(SubscribedRooms(c)) <= 1

\* C2: a joined connection whose last two frames are LEAVE_ROOM for room A and
\* then JOIN_ROOM for room B, A # B, is in no state a subscriber of both A and B.
C2_NeverInBothRooms ==
  \A c \in Conns :
    (switch[c].left # NoRoom /\ switch[c].joined # NoRoom
       /\ switch[c].left # switch[c].joined)
    => ~(c \in roomSubscriptions[switch[c].left]
         /\ c \in roomSubscriptions[switch[c].joined])

\* C3: no two frame handlers of one connection are in flight at once: the
\* handler of the next frame starts only when the previous one has completed.
C3_OneHandlerPerConnection ==
  \A c \in Conns : Cardinality({t \in HandlerTasks : t.conn = c}) <= 1

\* C9: a second removeConnection for an id already removed changes no registry,
\* session, timer or persisted state, pushes no frame, publishes no event and
\* does not throw.
C9_RemoveTwiceIsNoOp ==
  [][lastOp'.op = "removeAgain"
       => /\ UNCHANGED <<connections, userConnections, roomSubscriptions,
                         state, users, participants, messages, tasks, timers>>
          /\ sent' = <<>>
          /\ emitted' = <<>>
          /\ lastOp'.outcome = "done"]_vars

\* C9 witness: removeConnection ran a second time for a connection that had
\* joined a room in which another live connection is still subscribed.
C9_Witness ==
  /\ lastOp.op = "removeAgain"
  /\ state[lastOp.conn].roomId # NoRoom
  /\ \E d \in roomSubscriptions[state[lastOp.conn].roomId] : wsState[d] = "open"

\* C10: when a storage call of removeConnection fails, removeConnection does
\* not throw, and once it has finished the connection is out of the
\* connection map.
C10_TeardownSurvivesStorageFailure ==
  /\ lastOp.outcome # "throw"
  /\ \A c \in Conns :
       (wsState[c] = "closed" /\ \A t \in tasks : ~(t.conn = c /\ t.kind = "remove"))
       => c \notin connections


\* ------------------------------------------------------------ typing claims
TypingStopEvent(c, roomId) ==
  ServerEvent("USER_STOPPED_TYPING", roomId, state[c].userId, "")

\* The open connections subscribed to a room other than one connection.
OthersIn(roomId, c) ==
  {d \in roomSubscriptions[roomId] : d # c /\ d \in connections /\ wsState[d] = "open"}

DeliveredTo == {sent[i].to : i \in DOMAIN sent}

\* C6: a connection has at most one pending typing timer.  After a
\* TYPING_START of an authorized connection the only pending timer of the
\* connection is the one its session holds, due TYPING_TIMEOUT_MS after that
\* frame, any earlier timer being cancelled; and a timer callback that runs for
\* a connection is the one the session held, no earlier than its delay.
C6_TimerRestartsOnTypingStart ==
  /\ [](\A c \in Conns :
         /\ Cardinality(PendingTimers(c)) <= 1
         /\ (lastOp.op = "TYPING_START" /\ lastOp.outcome = "done" /\ lastOp.conn = c)
              => PendingTimers(c) =
                   {[id |-> state[c].typingTimeout, conn |-> c, room |-> lastOp.room,
                     deadline |-> now + TYPING_TIMEOUT_MS,
                     armedIn |-> state[c].roomId]})
  /\ [][lastOp'.op = "timer" =>
          \E tm \in timers \ timers' :
            /\ tm.conn = lastOp'.conn
            /\ tm.id = state[tm.conn].typingTimeout
            /\ now >= tm.deadline]_vars

\* C6 witness: a TYPING_START has re-armed the timer of a connection whose
\* earlier timer was still pending, some time after that one was armed.
C6_Witness ==
  /\ lastOp.op = "TYPING_START"
  /\ lastOp.outcome = "done"
  /\ lastOp.aux = "armed"
  /\ now > StartTime
  /\ \E tm \in PendingTimers(lastOp.conn) : tm.deadline = now + TYPING_TIMEOUT_MS

\* C7 as stated: when the typing timer of a connection fires (armed by a
\* TYPING_START for the room the connection was in, the connection in at most
\* one room, none of its handlers in flight), USER_STOPPED_TYPING goes to the
\* subscribers of the connection's current room other than itself, and the
\* connection has no pending timer.
C7_TimerStopsCurrentRoom ==
  \A c \in Conns :
    ( /\ lastOp.op = "timer" /\ lastOp.conn = c
      /\ lastOp.aux = lastOp.room
      /\ Cardinality(SubscribedRooms(c)) <= 1
      /\ \A t \in HandlerTasks : t.conn # c )
    => /\ DeliveredTo = OthersIn(state[c].roomId, c)
       /\ PendingTimers(c) = {}

\* C7 amended: when the typing timer of a connection fires, USER_STOPPED_TYPING
\* for the room named by the TYPING_START frame that armed the timer goes to
\* the subscribers of that room other than the connection, and the connection
\* has no pending timer and holds no timer handle.
C7_TimerStopsArmedRoom ==
  \A c \in Conns :
    (lastOp.op = "timer" /\ lastOp.conn = c)
    => /\ DeliveredTo = OthersIn(lastOp.room, c)
       /\ \A i \in DOMAIN sent : sent[i].event = TypingStopEvent(c, lastOp.room)
       /\ Len(sent) = Cardinality(OthersIn(lastOp.room, c))
       /\ PendingTimers(c) = {}
       /\ state[c].typingTimeout = NoTimer

\* C7 witness: the timer of a connection that has moved to another room has
\* fired and a subscriber of the room it was armed for has been told.
C7_Witness ==
  /\ lastOp.op = "timer"
  /\ lastOp.aux = lastOp.room
  /\ state[lastOp.conn].roomId # lastOp.room
  /\ lastOp.conn \notin roomSubscriptions[lastOp.room]
  /\ DeliveredTo # {}

\* The steps that cancel the typing timer of a connection.
CancelStep(o) ==
  \/ o.op \in {"TYPING_STOP", "SEND_MESSAGE:sendMessage"} /\ o.outcome = "done"
  \/ o.op = "close"

\* C8: TYPING_STOP, an accepted SEND_MESSAGE and the removal of the connection
\* each leave the connection without a pending typing timer; they arm none,
\* touch no other connection's timer, and change no timer when none was armed.
C8_CancelLeavesNoTimer ==
  [][CancelStep(lastOp') =>
       /\ \A tm \in timers' : tm.conn # lastOp'.conn
       /\ timers' = timers \ PendingTimers(lastOp'.conn)
       /\ (PendingTimers(lastOp'.conn) = {} => timers' = timers)]_vars

\* C8 witness: an accepted SEND_MESSAGE has completed for a connection whose
\* typing timer was pending.
C8_Witness ==
  /\ lastOp.op = "SEND_MESSAGE:sendMessage"
  /\ lastOp.outcome = "done"
  /\ lastOp.aux = "armed"
  /\ PendingTimers(lastOp.conn) = {}


\* -------------------------------------------------------------- rate claims
RateLimitedReply(c) ==
  <<[to |-> c, event |-> ServerEvent("ERROR", NoRoom, NoUser, "RATE_LIMITED")]>>

\* A step in which connection c has made a SEND_MESSAGE attempt that passed
\* the authorization check.
AttemptStep(o, c) ==
  o.op = "SEND_MESSAGE" /\ o.conn = c /\ o.outcome \in {"await", "rate_limited"}

C5_WindowFixedFromStart ==
  \A c \in Conns :
    (AttemptStep(lastOp, c) /\ rateWindow[c].attempts = 1)
    => /\ state[c].messageCount = 1
       /\ lastOp.outcome = "await"

\* ------------------------------------------------------- broadcast claims
\* The live connections subscribed to a room.
LiveIn(roomId) ==
  {d \in roomSubscriptions[roomId] : d \in connections /\ wsState[d] = "open"}

SentEvents == {sent[i].event : i \in DOMAIN sent}

\* C11: when a connection with no handler in flight is removed, for every
\* room r it is subscribed to, every other live subscriber of r is sent
\* USER_LEFT with the user's id and r
\* and the connection is out of r's subscriber set; when removeConnection
\* completes, user-disconnected is published for the user.
C11_RemovalTellsTheRoom ==
  /\ [][\A c \in Conns : \A r \in SubscribedRooms(c) :
          (lastOp'.op = "close" /\ lastOp'.conn = c
             /\ \A t \in HandlerTasks : t.conn # c)
          => /\ \A d \in LiveIn(r) \ {c} :
                  \E i \in DOMAIN sent' :
                    sent'[i] = [to |-> d, event |->
                                  ServerEvent("USER_LEFT", r, state[c].userId, "")]
             /\ c \notin roomSubscriptions'[r]]_vars
  /\ [](\A c \in Conns :
          (lastOp.op = "remove:updateLastSeen" /\ lastOp.conn = c
             /\ lastOp.outcome = "done")
          => /\ emitted = <<[event |-> "user:disconnected", user |-> state[c].userId]>>
             /\ c \notin connections)

\* C12: the USER_TYPING broadcast of a TYPING_START from connection C is not
\* delivered to C and is delivered to every other live subscriber of the room
\* C's session is in.
C12_TypingReachesOwnRoom ==
  \A c \in Conns :
    (lastOp.op = "TYPING_START" /\ lastOp.outcome = "done" /\ lastOp.conn = c)
    => /\ c \notin DeliveredTo
       /\ \A d \in LiveIn(state[c].roomId) \ {c} :
            \E i \in DOMAIN sent :
              sent[i] = [to |-> d, event |->
                           ServerEvent("USER_TYPING", state[c].roomId, state[c].userId, "")]

\* ------------------------------------------------------ session-gate claims
GatedFrames ==
  {"SEND_MESSAGE", "EDIT_MESSAGE", "DELETE_MESSAGE", "TYPING_START", "TYPING_STOP"}

\* C13: when a SEND_MESSAGE, EDIT_MESSAGE, DELETE_MESSAGE, TYPING_START or
\* TYPING_STOP frame arrives on a connection whose session has no userId, no
\* handler suspends in a use case, storage and timers stay as they are, no
\* domain event is published and no frame goes to any other connection: the
\* only frame sent is an ERROR UNAUTHORIZED to the sender itself.
C13_UnjoinedFramesStopAtTheGate ==
  [][\A c \in Conns :
       (lastOp'.op \in GatedFrames /\ lastOp'.conn = c /\ state[c].userId = NoUser)
       => /\ tasks' = tasks
          /\ storage' = storage
          /\ timers' = timers
          /\ emitted' = <<>>
          /\ \A i \in DOMAIN sent' :
               sent'[i] = [to |-> c, event |-> ServerEvent("ERROR", NoRoom, NoUser, "UNAUTHORIZED")]]_vars

C13_Witness ==
  /\ lastOp.op = "EDIT_MESSAGE" /\ lastOp.outcome = "ignored"
  /\ state[lastOp.conn].userId = NoUser
  /\ \E d \in Conns \ {lastOp.conn} : d \in roomSubscriptions["general"]
  /\ Len(messages) > 0

\* C14: when the SEND_MESSAGE of a live connection C whose session is in a
\* room has been persisted, MESSAGE_RECEIVED with the id of the new message
\* is delivered to every live subscriber of the message's room and to C.
C14_MessageReachesRoomAndSender ==
  \A c \in Conns :
    (/\ lastOp.op = "SEND_MESSAGE:sendMessage" /\ lastOp.outcome = "done"
     /\ lastOp.conn = c
     /\ c \in connections /\ wsState[c] = "open"
     /\ state[c].roomId # NoRoom)
    => \A d \in LiveIn(lastOp.room) \cup {c} :
         \E i \in DOMAIN sent :
           sent[i] = [to |-> d,
                      event |-> MessageEvent("MESSAGE_RECEIVED", lastOp.room,
                                  messages[Len(messages)].authorId, Len(messages))]

\* -------------------------------------------------------- message claims
ChangeFrames == {"EDIT_MESSAGE", "DELETE_MESSAGE"}

ErrorTo(c, code) == <<[to |-> c, event |-> ServerEvent("ERROR", NoRoom, NoUser, code)]>>

\* C15: when the use case of an EDIT_MESSAGE or DELETE_MESSAGE of user u
\* returns, then if the message id names no message the frames sent are
\* exactly ERROR MESSAGE_NOT_FOUND to the connection of the frame, and if it
\* names a message whose author is not u the frames sent are exactly ERROR
\* UNAUTHORIZED to that connection; in both cases the persisted messages are
\* as before and no domain event is published.
C15_OnlyTheAuthorChangesAMessage ==
  [][\A t \in tasks \ tasks' :
       (t.kind \in ChangeFrames /\ wsState[t.conn] = "open")
       => IF ~findById(messages, t.messageId)
          THEN /\ sent' = ErrorTo(t.conn, "MESSAGE_NOT_FOUND")
               /\ messages' = messages /\ emitted' = <<>>
          ELSE messages[t.messageId].authorId # t.user
               => /\ sent' = ErrorTo(t.conn, "UNAUTHORIZED")
                  /\ messages' = messages /\ emitted' = <<>>]_vars

C15_Witness ==
  /\ lastOp.op = "DELETE_MESSAGE:deleteMessage" /\ lastOp.outcome = "error"
  /\ sent = ErrorTo(2, "UNAUTHORIZED")
  /\ state[2].userId = "bob"
  /\ 2 \in roomSubscriptions["general"] /\ 1 \in roomSubscriptions["general"]
  /\ messages = <<Message("general", "alice")>>

\* ------------------------------------------------------------ join claims
JoinReplyStep(t) == t.kind = "JOIN_ROOM" /\ t.pc = "getRooms"

\* C16: when handleJoinRoom of a live connection c completes after a
\* successful join to room r as user u, the first frame sent is CONNECTED to
\* c and the second is ROOM_HISTORY of r to c, every other frame is
\* USER_JOINED for u in r to a connection other than c, and every other live
\* subscriber of r is sent one.
C16_JoinRepliesInOrder ==
  [][\A t \in tasks \ tasks' :
       (JoinReplyStep(t) /\ t.conn \in connections /\ wsState[t.conn] = "open")
       => /\ Len(sent') >= 2
          /\ sent'[1] = [to |-> t.conn, event |-> ServerEvent("CONNECTED", NoRoom, t.user, "")]
          /\ sent'[2] = [to |-> t.conn, event |-> ServerEvent("ROOM_HISTORY", t.room, NoUser, "")]
          /\ \A i \in 3..Len(sent') :
               /\ sent'[i].event = ServerEvent("USER_JOINED", t.room, t.user, "")
               /\ sent'[i].to # t.conn
          /\ \A d \in LiveIn(t.room) \ {t.conn} :
               \E i \in 3..Len(sent') : sent'[i].to = d]_vars

C16_Witness ==
  /\ lastOp.op = "JOIN_ROOM:getRooms" /\ lastOp.conn = 2
  /\ Len(sent) = 3
  /\ sent[3] = [to |-> 1, event |-> ServerEvent("USER_JOINED", "random", "bob", "")]
  /\ roomSubscriptions["random"] = {1, 2}

\* ------------------------------------------------------- failure claims
\* The error code of the use case that the suspended handler t awaits, as the
\* use case returns it in the current state; "" when it succeeds.
UseCaseError(t) ==
  CASE t.kind = "JOIN_ROOM" /\ t.pc = "joinRoom" ->
         IF t.room \notin Rooms THEN "ROOM_NOT_FOUND" ELSE ""
    [] t.kind = "LEAVE_ROOM" ->
         IF t.room \notin Rooms THEN "ROOM_NOT_FOUND" ELSE ""
    [] t.kind = "SEND_MESSAGE" -> sendMessageError(users, t.room, t.user)
    [] t.kind = "EDIT_MESSAGE" -> editMessageError(messages, t.messageId, t.user)
    [] t.kind = "DELETE_MESSAGE" -> deleteMessageError(messages, t.messageId, t.user)
    [] OTHER -> ""

\* C17: when the use case awaited by the handler of a frame of a live
\* connection returns a failure, exactly one frame is sent: ERROR with the
\* code of the failure, to the connection of the frame.
C17_FailureIsAnsweredWithError ==
  [][\A t \in tasks \ tasks' :
       (UseCaseError(t) # "" /\ t.conn \in connections /\ wsState[t.conn] = "open")
       => /\ Len(sent') = 1
          /\ sent'[1].to = t.conn
          /\ sent'[1].event.type = "ERROR"
          /\ sent'[1].event.code = UseCaseError(t)]_vars

\* C18: when useCases.joinRoom of a JOIN_ROOM of a live connection c for a
\* room that does not exist returns, the frames sent are exactly ERROR
\* ROOM_NOT_FOUND to c, and the sessions, the subscriber sets, the user index,
\* the connection map and the persisted users, participants and messages are
\* as before; the step that received the frame changed none of them either.
C18_JoinUnknownRoomChangesNothing ==
  [][/\ \A t \in tasks \ tasks' :
          (t.kind = "JOIN_ROOM" /\ t.pc = "joinRoom" /\ t.room \notin Rooms
             /\ t.conn \in connections /\ wsState[t.conn] = "open")
          => /\ sent' = <<[to |-> t.conn,
                           event |-> ServerEvent("ERROR", t.room, NoUser, "ROOM_NOT_FOUND")]>>
             /\ state' = state
             /\ registry' = registry
             /\ storage' = storage
             /\ emitted' = <<>>
             /\ tasks' = tasks \ {t}
     /\ (lastOp'.op = "JOIN_ROOM" /\ lastOp'.room \notin Rooms)
          => /\ state' = state /\ registry' = registry /\ storage' = storage
             /\ sent' = <<>>]_vars

C18_Witness ==
  /\ lastOp.op = "JOIN_ROOM:joinRoom" /\ lastOp.outcome = "error"
  /\ lastOp.conn = 2 /\ lastOp.room = NoSuchRoom
  /\ state[2] = EmptyState
  /\ ~users["bob"].exists
  /\ roomSubscriptions["general"] = {1}

\* ---------------------------------------------------------- session claims
\* C19: in every state the session of every connection has userId and
\* username both set or both unset, and has a roomId only if it has a userId.
C19_SessionFieldsSetTogether ==
  \A c \in Conns :
    /\ (state[c].userId = NoUser) <=> (state[c].username = NoUser)
    /\ state[c].roomId # NoRoom => state[c].userId # NoUser

C19_Witness ==
  /\ lastOp.op = "JOIN_ROOM:joinRoom" /\ lastOp.outcome = "await" /\ lastOp.conn = 1
  /\ state[1].userId = "alice" /\ state[1].username = "alice"
  /\ state[1].roomId = "random"
  /\ 2 \in connections /\ state[2] = EmptyState

\* C20: in every state a connection whose removeConnection has completed (its
\* transport is closed and it is out of the connection map) is in no room's
\* subscriber set.
C20_ClosedIsTerminal ==
  \A c \in Conns :
    (wsState[c] = "closed" /\ c \notin connections) => SubscribedRooms(c) = {}

\* ------------------------------------------------------------ index claims
\* C21: when a connection c with no handler in flight leaves the connection
\* map, no entry of the user-to-connection index names c afterwards, so that
\* every entry names a registered connection.
C21_UserIndexConsistent ==
  [][\A c \in Conns :
       (c \in connections /\ c \notin connections'
          /\ \A t \in HandlerTasks : t.conn # c)
       => \A u \in Usernames : userConnections'[u] # c]_vars

\* --------------------------------------------------------- presence claims
\* C22: when the user:status-changed listener of an UPDATE_STATUS of user u
\* broadcasts, every live subscriber of every room whose persisted
\* participants hold u at that moment is sent USER_STATUS_CHANGED with u's id
\* and the new status.
C22_StatusReachesEveryRoomOfUser ==
  [][\A t \in tasks \ tasks' :
       t.kind = "user:status-changed"
       => \A r \in Rooms :
            t.user \in participants[r]
            => \A d \in LiveIn(r) :
                 \E i \in DOMAIN sent' :
                   sent'[i] = [to |-> d, event |-> StatusEvent(t.user, t.status)]]_vars

C22_Witness ==
  /\ lastOp.op = "user:status-changed"
  /\ state[1].roomId = "random"
  /\ SubscribedRooms(2) = {"general"}
  /\ 2 \in connections /\ wsState[2] = "open"
  /\ participants["general"] = {"alice", "bob"}
  /\ \E i \in DOMAIN sent : sent[i] = [to |-> 2, event |-> StatusEvent("alice", "away")]

\* ---------------------------------------------------------- delivery claims
\* The registered subscribers of a room whose transport no longer accepts a
\* push.
DeadIn(roomId) ==
  {d \in roomSubscriptions[roomId] : d \in connections /\ wsState[d] # "open"}

\* C23: when LEAVE_ROOM, JOIN_ROOM or the user:status-changed listener
\* broadcasts to a room, every registered subscriber with an open transport
\* that is not excluded is sent the event, also when the push to another
\* subscriber of the room fails; the step sends no ERROR frame.
C23_DeliveryIsFaultIsolated ==
  [][\A t \in tasks \ tasks' :
       /\ (t.kind = "LEAVE_ROOM")
          => \A d \in LiveIn(t.room) \ {t.conn} :
               \E i \in DOMAIN sent' :
                 sent'[i] = [to |-> d, event |-> ServerEvent("USER_LEFT", t.room, state[t.conn].userId, "")]
       /\ JoinReplyStep(t)
          => \A d \in LiveIn(t.room) \ {t.conn} :
               \E i \in DOMAIN sent' :
                 sent'[i] = [to |-> d, event |-> ServerEvent("USER_JOINED", t.room, t.user, "")]
       /\ (t.kind = "user:status-changed")
          => \A r \in Rooms : t.user \in participants[r]
               => \A d \in LiveIn(r) :
                    \E i \in DOMAIN sent' :
                      sent'[i] = [to |-> d, event |-> StatusEvent(t.user, t.status)]
       /\ (t.kind \in {"LEAVE_ROOM", "user:status-changed"} \/ JoinReplyStep(t))
          => \A i \in DOMAIN sent' : sent'[i].event.type # "ERROR"]_vars

\* A status broadcast reached connection 2 in a room where the push to
\* connection 1, registered and closed, had failed before it.
C23_Witness ==
  /\ lastOp.op = "user:status-changed"
  /\ \E r \in Rooms :
       /\ 1 \in DeadIn(r) /\ 2 \in LiveIn(r)
       /\ \E i \in DOMAIN sent :
            sent[i].to = 2 /\ sent[i].event.type = "USER_STATUS_CHANGED"
            /\ sent[i].event.user \in participants[r]

\* ------------------------------------------------------- malformed frames
\* C24: when a frame that is not valid JSON or fails schema validation arrives
\* on connection c, the frames sent are exactly one ERROR INVALID_MESSAGE to c,
\* no handler suspends in a use case, and the sessions, the registry and the
\* persisted state are as before.
C24_InvalidFrameAnsweredOnce ==
  [][\A c \in Conns :
       (lastOp'.op = "handleMessage:invalid" /\ lastOp'.conn = c)
       => /\ sent' = ErrorTo(c, "INVALID_MESSAGE")
          /\ tasks' = tasks
          /\ state' = state
          /\ registry' = registry
          /\ storage' = storage]_vars

\* ------------------------------------------------------------ order claims
\* The handler t of a SEND_MESSAGE completes in this step: it broadcasts.
Broadcasts(t) ==
  /\ t.kind = "SEND_MESSAGE" /\ t.messageId # NoMessage
  /\ \A u \in tasks' : ~(u.conn = t.conn /\ u.seq = t.seq)

\* C25: when the handler of a SEND_MESSAGE broadcasts MESSAGE_RECEIVED for
\* its message, no message of the same room that was persisted earlier is
\* still waiting for its broadcast: the broadcasts of a room go out in the
\* order in which the messages were persisted.
C25_BroadcastInPersistenceOrder ==
  [][\A t \in tasks \ tasks' :
       Broadcasts(t)
       => \A u \in tasks' :
            (u.kind = "SEND_MESSAGE" /\ u.room = t.room /\ u.messageId # NoMessage)
            => u.messageId > t.messageId]_vars

\* C26: when the EDIT_MESSAGE or DELETE_MESSAGE of a connection that has left
\* its room and not joined again (it is in no subscriber set and no other
\* handler of it is in flight) succeeds, no frame is sent.
C26_NoChangeBroadcastAfterLeave ==
  [][\A t \in tasks \ tasks' :
       (/\ t.kind \in ChangeFrames
        /\ UseCaseError(t) = ""
        /\ SubscribedRooms(t.conn) = {}
        /\ \A u \in HandlerTasks : u.conn = t.conn => u = t)
       => sent' = <<>>]_vars

C28_OneUserPerUsername ==
  \A u \in Usernames : users[u].rows <= 1

\* C29: every content that MessageContentSchema accepts for SEND_MESSAGE or
\* EDIT_MESSAGE has between 1 and MAX_MESSAGE_LENGTH characters after trimming,
\* and a content of whitespace only is not accepted.
C29_AcceptedContentIsNonEmptyAfterTrim ==
  (lastOp.op = "MessageContentSchema" /\ lastOp.aux.result.success)
    => /\ length(trim(lastOp.aux.content)) \in 1..MAX_MESSAGE_LENGTH
       /\ length(lastOp.aux.result.data) \in 1..MAX_MESSAGE_LENGTH
       /\ lastOp.aux.content.body > 0

\* The messages of the room created before `before` (all of them when it is
\* not given), in stored order, and the createdAt of the `limit` most recent.
Candidates(roomId, before) ==
  LET Counts(m) == m.roomId = roomId /\ (before # NoBefore => m.createdAt < before)
  IN  SelectSeq(messages, Counts)

MostRecent(cands, limit) ==
  IF Len(cands) <= limit THEN cands
  ELSE SubSeq(cands, Len(cands) - limit + 1, Len(cands))

CreatedAts(s) == [i \in 1..Len(s) |-> s[i].createdAt]

\* C30: getRoomHistory fails with ROOM_NOT_FOUND for a room that does not
\* exist; for one that does it returns, oldest first, the `limit` most recent
\* messages of the room created before `before` (all of them when there are at
\* most `limit`), and hasMore is true exactly when there are more than `limit`.
C30_HistoryIsTheMostRecentPage ==
  lastOp.op = "getRoomHistory" =>
    LET result == lastOp.aux.result
        cands == Candidates(lastOp.room, lastOp.aux.before)
    IN  IF lastOp.room \notin Rooms
        THEN ~result.success /\ result.code = "ROOM_NOT_FOUND"
        ELSE /\ result.success
             /\ \A i \in 1..Len(result.messages), j \in 1..Len(result.messages) :
                  i < j => result.messages[i].createdAt <= result.messages[j].createdAt
             /\ CreatedAts(result.messages) = CreatedAts(MostRecent(cands, lastOp.aux.limit))
             /\ result.hasMore = (Len(cands) > lastOp.aux.limit)

C34_SessionRoomMatchesSubscription ==
  \A c \in connections, r \in RoomIds :
    c \in roomSubscriptions[r] <=> state[c].roomId = r

\* C37: a SEND_MESSAGE, TYPING_START or TYPING_STOP of a joined connection
\* whose payload roomId is not the roomId of its session persists no message
\* and sends no MESSAGE_RECEIVED, USER_TYPING or USER_STOPPED_TYPING of the
\* payload's room to anyone.
C37_ActsOnlyOnOwnRoom ==
  [][\A c \in Conns :
       (/\ lastOp'.conn = c
        /\ \/ lastOp'.op \in {"TYPING_START", "TYPING_STOP"}
           \/ lastOp'.op = "SEND_MESSAGE:sendMessage"
        /\ state[c].userId # NoUser
        /\ state[c].roomId = state'[c].roomId
        /\ lastOp'.room # state[c].roomId)
       => /\ messages' = messages
          /\ \A i \in DOMAIN sent' :
               ~(/\ sent'[i].event.type \in
                      {"MESSAGE_RECEIVED", "USER_TYPING", "USER_STOPPED_TYPING"}
                 /\ sent'[i].event.room = lastOp'.room)]_vars

\* C38: when a connection that is no longer subscribed to room r (it has left
\* r with LEAVE_ROOM, which told the room) is removed, no USER_LEFT for its
\* user and room r is sent to anyone: the room is told at most once per join.
C38_UserLeftOncePerJoin ==
  [][\A c \in Conns, r \in Rooms :
       (/\ lastOp'.op = "close" /\ lastOp'.conn = c
        /\ c \notin roomSubscriptions[r]
        /\ \A t \in HandlerTasks : t.conn # c)
       => \A i \in DOMAIN sent' :
            ~(/\ sent'[i].event.type = "USER_LEFT"
              /\ sent'[i].event.room = r
              /\ sent'[i].event.user = state[c].userId)]_vars

\* C39: while a registered connection with an open transport is joined as
\* user u (and has sent no LEAVE_ROOM and no UPDATE_STATUS), the persisted
\* status of u is not offline, also when another connection that joined with
\* the same username is closed.
C39_JoinedUserIsNotOffline ==
  \A c \in connections :
    (/\ wsState[c] = "open"
     /\ state[c].userId # NoUser
     /\ c \in roomSubscriptions[state[c].roomId])
    => users[state[c].userId].status # "offline"

\* C40: USER_STOPPED_TYPING for a user goes to a room only when that user's
\* connection has an open typing episode there, i.e. its USER_TYPING went to
\* the room and the auto-stop timer armed with it is still pending when the
\* step begins; a SEND_MESSAGE of a connection that is not typing sends none.
C40_StopOnlyEndsATypingEpisode ==
  [][\A i \in DOMAIN sent' :
       sent'[i].event.type = "USER_STOPPED_TYPING"
       => \E tm \in timers :
            /\ tm.conn = lastOp'.conn
            /\ tm.room = sent'[i].event.room
            /\ state[tm.conn].userId = sent'[i].event.user]_vars

\* C32: a handler registered with once() and not taken out before an emit of
\* its event has been invoked exactly once as soon as one emit of the event
\* has followed its registration, however many follow, and never before; from
\* that first emit on it is not in the event's Set, so listenerCount counts
\* exactly the handlers still waiting or registered with on().
C32_OnceFiresOnFirstEmitOnly ==
  /\ \A h \in HandlerIds :
       (events.registered[h].once /\ h \notin events.removed) =>
         /\ events.calls[h] = (IF events.emits[h] >= 1 THEN 1 ELSE 0)
         /\ events.emits[h] >= 1 => h \notin events.handlers[events.registered[h].event]
  /\ \A e \in EventNames :
       listenerCount(events, e) =
         Cardinality({h \in HandlerIds :
                        /\ events.registered[h].event = e
                        /\ h \notin events.removed
                        /\ ~(events.registered[h].once /\ events.emits[h] >= 1)})

\* C32 witness: an event has been emitted twice since a once() handler and an
\* on() handler were registered for it; the first was invoked once, the other
\* twice, and listenerCount counts one handler.
C32_Witness ==
  \E h \in HandlerIds, g \in HandlerIds :
    /\ events.registered[h].once /\ ~events.registered[g].once
    /\ events.registered[g].event = events.registered[h].event
    /\ events.emits[h] = 2 /\ events.calls[h] = 1
    /\ events.emits[g] = 2 /\ events.calls[g] = 2
    /\ listenerCount(events, events.registered[h].event) = 1
    /\ lastOp.op = "emit"

\* C36: while the JOIN_ROOM handler of a connection has subscribed it to the
\* room and has not yet sent CONNECTED and ROOM_HISTORY, no step of another
\* handler delivers a room broadcast (USER_JOINED, USER_LEFT, MESSAGE_RECEIVED,
\* USER_TYPING, ...) to that connection.
C36_NoBroadcastBeforeJoinReplies ==
  [][\A t \in tasks \cap tasks' :
       JoinReplyStep(t) =>
         \A i \in DOMAIN sent' :
           sent'[i].to = t.conn =>
             sent'[i].event.type \in {"CONNECTED", "ROOM_HISTORY", "ERROR"}]_vars

\* C35: when a persisted message of room r is broadcast while another
\* connection's JOIN_ROOM for r has read the room history and has not yet
\* sent its replies, the message is in the history that join read or
\* MESSAGE_RECEIVED for it is delivered to the joining connection.
C35_NoMessageLostToJoiner ==
  [][\A s \in tasks \ tasks' :
       (s.kind = "SEND_MESSAGE" /\ lastOp'.op = "SEND_MESSAGE:broadcast") =>
         \A j \in tasks :
           (/\ j.kind = "JOIN_ROOM" /\ j.room = s.room /\ j.conn # s.conn
            /\ j.pc \in {"getOnlineParticipants", "getRooms"})
           => \/ \E i \in DOMAIN j.history : j.history[i].id = s.messageId
              \/ \E i \in DOMAIN sent' :
                   sent'[i] = [to |-> j.conn,
                               event |-> MessageEvent("MESSAGE_RECEIVED", s.room,
                                           s.user, s.messageId)]]_vars

\* C31: when a JOIN_ROOM reads the history of a room, no soft-deleted message
\* is in it, and every remaining message of the room that replies to a
\* deleted message is there with a reply reference naming the deleted
\* message's id and its author's username.
C31_DeletedMessageKeepsReplyReferences ==
  [][\A j \in tasks' \ tasks :
       (j.kind = "JOIN_ROOM" /\ lastOp'.op = "JOIN_ROOM:getRoomMessagesWithAuthors") =>
         /\ \A i \in DOMAIN j.history : ~messages[j.history[i].id].deleted
         /\ \A r \in DOMAIN messages :
              (/\ messages[r].roomId = j.room /\ ~messages[r].deleted
               /\ messages[r].replyTo # NoMessage
               /\ messages[messages[r].replyTo].deleted)
              => \E i \in DOMAIN j.history :
                   /\ j.history[i].id = r
                   /\ j.history[i].replyTo = messages[r].replyTo
                   /\ j.history[i].authorUsername =
                        messages[messages[r].replyTo].authorId]_vars

====
